---- MODULE Spec2Model ----
(***************************************************************************)
(* Model of the vibelive music engine: the scheduler                       *)
(* (music-turtles/src/scheduler.rs), the playback session                  *)
(* (music-turtles/src/local_playback.rs), the players                      *)
(* (music-turtles/src/player.rs), the scanners                             *)
(* (music-turtles/src/cfg/scan.rs) and the composer                        *)
(* (backend/src/cfg/mod.rs).                                               *)
(*                                                                         *)
(* Units.  A MusicTime is the total number of beats it denotes (a natural  *)
(* number; the time signature is 4/4, so a measure is 4 beats).  Seconds   *)
(* are counted in twentieths of a second, so that at 120 bpm one beat is   *)
(* 10 units and the 0.9 release factor is exact.                           *)
(***************************************************************************)
EXTENDS Integers, Sequences, FiniteSets, TLC

\* ---------------------------------------------------------------- bounds
MaxStart == 3
MaxEvents == 2
MaxLookahead == 2
MaxLoopTime == 4
MaxElapsed == 50
MaxInnerLen == 2
MaxBranches == 2
MaxRepeat == 2
MaxSimpleLen == 3
MaxParts == 2
MaxLines == 3

\* ------------------------------------------------------------- time.rs
UnitsPerMinute == 60 * 20

BeatsPerMeasure(ts) == ts[1]

Common == <<4, 4>>

Zero == 0

Measures(n) == n * BeatsPerMeasure(Common)

to_seconds(ts, bpm, mt) == (mt * UnitsPerMinute) \div bpm

from_seconds(ts, bpm, s) == (s * bpm) \div UnitsPerMinute

\* ------------------------------------------------------ composition.rs
Instruments == <<"SineWave", "Piano">>

InstrumentOrd(i) == CHOOSE k \in 1..Len(Instruments) : Instruments[k] = i

Event(start, duration, volume, pitch) ==
    [start |-> start, duration |-> duration, volume |-> volume, pitch |-> pitch]

Track(instrument, events) ==
    [identifier |-> instrument, instrument |-> instrument, events |-> events]

RECURSIVE FilterEvents(_, _, _, _)
FilterEvents(events, lo, hi, exclusive) ==
    IF events = <<>> THEN <<>>
    ELSE LET e == Head(events)
             keep == (IF exclusive THEN lo < e.start ELSE lo <= e.start)
                     /\ e.start < hi
         IN (IF keep THEN <<e>> ELSE <<>>)
            \o FilterEvents(Tail(events), lo, hi, exclusive)

get_events_starting_between(track, lo, hi, exclusive) ==
    FilterEvents(track.events, lo, hi, exclusive)

get_end(track, ts) ==
    IF track.events = <<>> THEN {}
    ELSE LET last == track.events[Len(track.events)]
         IN {last.start + last.duration}

\* --------------------------------------------------------- scheduler.rs
ScheduledSound(time, duration, volume, instrument, pitch) ==
    [time |-> time, duration |-> duration, volume |-> volume,
     instrument |-> instrument, pitch |-> pitch]

AtomicSoundFrom(value) ==
    [start |-> value.time, duration |-> value.duration, volume |-> value.volume,
     pitch |-> value.pitch, instrument |-> value.instrument]

\* derived PartialOrd of ScheduledSound: lexicographic in field order
SoundKey(s) ==
    <<s.time, s.duration, s.volume, InstrumentOrd(s.instrument), s.pitch[1], s.pitch[2]>>

RECURSIVE LexLess(_, _)
LexLess(a, b) ==
    IF a = <<>> THEN FALSE
    ELSE IF Head(a) # Head(b) THEN Head(a) < Head(b)
    ELSE LexLess(Tail(a), Tail(b))

partial_cmp_less(a, b) == LexLess(SoundKey(a), SoundKey(b))

RECURSIVE InsertSorted(_, _)
InsertSorted(sorted, x) ==
    IF sorted = <<>> THEN <<x>>
    ELSE IF partial_cmp_less(x, Head(sorted)) THEN <<x>> \o sorted
    ELSE <<Head(sorted)>> \o InsertSorted(Tail(sorted), x)

sort_by_unsorted(s) == s

RECURSIVE sort_by(_)
sort_by(s) ==
    IF s = <<>> THEN <<>>
    ELSE InsertSorted(sort_by(SubSeq(s, 1, Len(s) - 1)), s[Len(s)])

Diverged == -1

\* while x > loop_end { x = x - loop_end }
RECURSIVE WhileAbove(_, _, _)
WhileAbove(x, loop_end, fuel) ==
    IF x > loop_end
    THEN IF fuel = 0 THEN Diverged
         ELSE WhileAbove(x - loop_end, loop_end, fuel - 1)
    ELSE x

\* while se.time < current_track_pos { se.time += loop_time_s }
WhileBefore_once(time, current_track_pos, loop_time_s, fuel) ==
    IF time < current_track_pos THEN time + loop_time_s ELSE time

RECURSIVE WhileBefore(_, _, _, _)
WhileBefore(time, current_track_pos, loop_time_s, fuel) ==
    IF time < current_track_pos
    THEN IF fuel = 0 THEN Diverged
         ELSE WhileBefore(time + loop_time_s, current_track_pos, loop_time_s, fuel - 1)
    ELSE time

ProjectSound(s, se, current_track_pos, loop_time_s) ==
    IF s.looped
    THEN [se EXCEPT !.time = WhileBefore(se.time, current_track_pos, loop_time_s,
                                         current_track_pos)]
    ELSE se

EventToSound(s, track, e) ==
    ScheduledSound(to_seconds(s.time_signature, s.bpm, e.start),
                   (to_seconds(s.time_signature, s.bpm, e.duration) * 9) \div 10,
                   e.volume, track.instrument, e.pitch)

TrackEvents(track, cursor, looping, loop_end, end_music_time) ==
    IF looping
    THEN get_events_starting_between(track, cursor, loop_end, FALSE)
         \o get_events_starting_between(track, Zero, end_music_time, FALSE)
    ELSE get_events_starting_between(track, cursor, end_music_time, FALSE)

TrackSounds(s, tc, looping, loop_end, end_music_time, current_track_pos, loop_time_s) ==
    LET events == TrackEvents(tc[1], tc[2], looping, loop_end, end_music_time)
    IN [i \in 1..Len(events) |->
          ProjectSound(s, EventToSound(s, tc[1], events[i]),
                       current_track_pos, loop_time_s)]

RECURSIVE FlatMap(_, _, _, _, _, _, _)
FlatMap(s, tracks, looping, loop_end, end_music_time, current_track_pos, loop_time_s) ==
    IF tracks = <<>> THEN <<>>
    ELSE TrackSounds(s, Head(tracks), looping, loop_end, end_music_time,
                     current_track_pos, loop_time_s)
         \o FlatMap(s, Tail(tracks), looping, loop_end, end_music_time,
                    current_track_pos, loop_time_s)

CurrentMusicTime(s, current_track_pos) ==
    LET m == from_seconds(s.time_signature, s.bpm, current_track_pos)
    IN IF s.looped THEN WhileAbove(m, s.loop_time, m) ELSE m

EndNonLooped(s, current_music_time) == current_music_time + s.lookahead

Looping(s, end_non_looped) == s.looped /\ end_non_looped > s.loop_time

EndMusicTime_unreduced(s, end_non_looped) == end_non_looped

EndMusicTime(s, end_non_looped) ==
    IF Looping(s, end_non_looped)
    THEN WhileAbove(end_non_looped, s.loop_time, end_non_looped)
    ELSE end_non_looped

Collected(s, current_track_pos) ==
    LET cur == CurrentMusicTime(s, current_track_pos)
        enl == EndNonLooped(s, cur)
    IN FlatMap(s, s.tracks, Looping(s, enl), s.loop_time, EndMusicTime(s, enl),
               current_track_pos,
               to_seconds(s.time_signature, s.bpm, s.loop_time))

\* the call never returns: one of its three while loops does not terminate
CallDiverges(s, current_track_pos) ==
    LET cur == CurrentMusicTime(s, current_track_pos)
    IN \/ cur = Diverged
       \/ EndMusicTime(s, EndNonLooped(s, cur)) = Diverged
       \/ \E i \in DOMAIN Collected(s, current_track_pos) :
              Collected(s, current_track_pos)[i].time = Diverged

SortedSounds(s, current_track_pos) == sort_by(Collected(s, current_track_pos))

UpdatedTracks_stale(s, current_track_pos) == s.tracks

UpdatedTracks(s, current_track_pos) ==
    LET end_music_time ==
            EndMusicTime(s, EndNonLooped(s, CurrentMusicTime(s, current_track_pos)))
    IN [i \in 1..Len(s.tracks) |-> <<s.tracks[i][1], end_music_time>>]

set_composition_rewound(s, composition) ==
    [s EXCEPT !.time_signature = composition.time_signature,
              !.lookahead = Zero,
              !.tracks = [i \in 1..Len(composition.tracks) |->
                             <<composition.tracks[i], Zero>>]]

set_composition(s, composition) ==
    [s EXCEPT !.time_signature = composition.time_signature,
              !.tracks = [i \in 1..Len(composition.tracks) |->
                             <<composition.tracks[i], Zero>>]]

ended_at_end(s) ==
    \A i \in 1..Len(s.tracks) :
        \A end \in get_end(s.tracks[i][1], s.time_signature) : s.tracks[i][2] >= end

ended(s) ==
    \A i \in 1..Len(s.tracks) :
        \A end \in get_end(s.tracks[i][1], s.time_signature) : s.tracks[i][2] > end

\* ------------------------------------------- composition.rs (composer side)
\* Track + Track: the event lists are concatenated
TrackAdd(a, b) == [a EXCEPT !.events = a.events \o b.events]

ShiftTrack(track, offset) ==
    [track EXCEPT !.events = [i \in DOMAIN track.events |->
                                 [track.events[i] EXCEPT !.start = @ + offset]]]

shift_by(c, offset) ==
    [c EXCEPT !.tracks = [k \in DOMAIN c.tracks |-> ShiftTrack(c.tracks[k], offset)]]

MaxOf(S) == IF S = {} THEN Zero ELSE CHOOSE m \in S : \A x \in S : x <= m

TrackEnds(track) ==
    {track.events[i].start + track.events[i].duration : i \in DOMAIN track.events}

get_duration(c) == MaxOf(UNION {TrackEnds(c.tracks[k]) : k \in DOMAIN c.tracks})

\* ------------------------------------------------------- cfg/mod.rs
Note(pitch, duration) ==
    [type |-> "Note", pitch |-> pitch, duration |-> duration,
     instrument |-> "", volume |-> 0, num |-> 0, parts |-> <<>>]

Rest(duration) ==
    [type |-> "Rest", pitch |-> <<0, 0>>, duration |-> duration,
     instrument |-> "", volume |-> 0, num |-> 0, parts |-> <<>>]

ChangeInstrument(instrument) ==
    [type |-> "ChangeInstrument", pitch |-> <<0, 0>>, duration |-> 0,
     instrument |-> instrument, volume |-> 0, num |-> 0, parts |-> <<>>]

ChangeVolume(volume) ==
    [type |-> "ChangeVolume", pitch |-> <<0, 0>>, duration |-> 0,
     instrument |-> "", volume |-> volume, num |-> 0, parts |-> <<>>]

NT ==
    [type |-> "NT", pitch |-> <<0, 0>>, duration |-> 0,
     instrument |-> "", volume |-> 0, num |-> 0, parts |-> <<>>]

Split(branches) ==
    [type |-> "Split", pitch |-> <<0, 0>>, duration |-> 0,
     instrument |-> "", volume |-> 0, num |-> 0, parts |-> branches]

Repeat(num, content) ==
    [type |-> "Repeat", pitch |-> <<0, 0>>, duration |-> 0,
     instrument |-> "", volume |-> 0, num |-> num, parts |-> <<content>>]

TrackOf(tracks, instrument) ==
    {k \in DOMAIN tracks : tracks[k].instrument = instrument}

add_event_new_track(tracks, e, instrument) ==
    Append(tracks, Track(instrument, <<e>>))

add_event(tracks, e, instrument) ==
    IF TrackOf(tracks, instrument) # {}
    THEN [k \in DOMAIN tracks |->
            IF tracks[k].instrument = instrument
            THEN [tracks[k] EXCEPT !.events = Append(@, e)]
            ELSE tracks[k]]
    ELSE Append(tracks, Track(instrument, <<e>>))

add_track(tracks, track) ==
    IF TrackOf(tracks, track.instrument) # {}
    THEN [k \in DOMAIN tracks |->
            IF tracks[k].instrument = track.instrument
            THEN TrackAdd(tracks[k], track)
            ELSE tracks[k]]
    ELSE Append(tracks, track)

RECURSIVE add_tracks(_, _)
add_tracks(tracks, more) ==
    IF more = <<>> THEN tracks
    ELSE add_tracks(add_track(tracks, Head(more)), Tail(more))

add_composition(tracks, composition) == add_tracks(tracks, composition.tracks)

Panicked(ts) == [status |-> "panic", tracks |-> <<>>, time_signature |-> ts]

\* add_composition of the copies shifted by offset, offset + duration, ...
RECURSIVE AddCopies(_, _, _, _, _)
AddCopies(tracks, composed, offset, duration, n) ==
    IF n = 0 THEN tracks
    ELSE AddCopies(add_composition(tracks, shift_by(composed, offset)),
                   composed, offset + duration, duration, n - 1)

uniform_duration(comps) ==
    IF comps = <<>> THEN {}
    ELSE IF \A k \in DOMAIN comps : comps[k][1] = comps[1][1]
         THEN {comps[1][1]}
         ELSE {}

RECURSIVE AddAll(_, _)
AddAll(tracks, comps) ==
    IF comps = <<>> THEN tracks
    ELSE AddAll(add_composition(tracks, Head(comps)[2]), Tail(comps))

RECURSIVE compose(_, _)
RECURSIVE ComposeWalk(_, _, _)

\* one iteration of `for mp in self.0.iter()`; st.ok = FALSE once a panic unwinds
ComposeStep(st, mp, ts) ==
    IF mp.type = "NT" THEN st
    ELSE IF mp.type = "Note"
    THEN [st EXCEPT !.tracks = add_event(@, Event(st.current_mt, mp.duration,
                                                   st.current_volume, mp.pitch),
                                         st.current_instrument),
                    !.current_mt = @ + mp.duration]
    ELSE IF mp.type = "Rest" THEN [st EXCEPT !.current_mt = @ + mp.duration]
    ELSE IF mp.type = "ChangeInstrument"
    THEN [st EXCEPT !.current_instrument = mp.instrument]
    ELSE IF mp.type = "ChangeVolume" THEN [st EXCEPT !.current_volume = mp.volume]
    ELSE IF mp.type = "Split"
    THEN LET branches == [k \in DOMAIN mp.parts |-> compose(mp.parts[k], ts)]
         IN IF \E k \in DOMAIN branches : branches[k].status = "panic"
            THEN [st EXCEPT !.ok = FALSE]
            ELSE LET comps == [k \in DOMAIN branches |->
                                  LET c == shift_by(branches[k], st.current_mt)
                                  IN <<get_duration(c), c>>]
                 IN IF uniform_duration(comps) = {}
                    THEN [st EXCEPT !.ok = FALSE]
                    ELSE [st EXCEPT !.tracks = AddAll(@, comps),
                                    !.current_mt = @ + comps[1][1]]
    ELSE LET composed == compose(mp.parts[1], ts)
         IN IF composed.status = "panic"
            THEN [st EXCEPT !.ok = FALSE]
            ELSE LET duration == get_duration(composed)
                 IN [st EXCEPT !.tracks = AddCopies(@, composed, Zero, duration, mp.num),
                               !.current_mt = @ + mp.num * duration]

ComposeWalk(st, ms, ts) ==
    IF ms = <<>> \/ ~st.ok THEN st
    ELSE ComposeWalk(ComposeStep(st, Head(ms), ts), Tail(ms), ts)

\* the locals of one compose call: empty track map, cursor zero, SineWave, volume 50
ComposerStart_loud ==
    [tracks |-> <<>>, current_mt |-> Zero, current_instrument |-> "SineWave",
     current_volume |-> 80, ok |-> TRUE]

ComposerStart ==
    [tracks |-> <<>>, current_mt |-> Zero, current_instrument |-> "SineWave",
     current_volume |-> 50, ok |-> TRUE]

compose(ms, ts) ==
    LET st == ComposeWalk(ComposerStart, ms, ts)
    IN IF st.ok
       THEN [status |-> "ok", tracks |-> st.tracks, time_signature |-> ts]
       ELSE Panicked(ts)

\* ------------------------------------------------------ cfg/scan.rs
\* A &str is a sequence of one-character strings.
LowerCase ==
    <<"a", "b", "c", "d", "e", "f", "g", "h", "i", "j", "k", "l", "m">> \o
    <<"n", "o", "p", "q", "r", "s", "t", "u", "v", "w", "x", "y", "z">>

UpperCase ==
    <<"A", "B", "C", "D", "E", "F", "G", "H", "I", "J", "K", "L", "M">> \o
    <<"N", "O", "P", "Q", "R", "S", "T", "U", "V", "W", "X", "Y", "Z">>

DigitChars == <<"0", "1", "2", "3", "4", "5", "6", "7", "8", "9">>

RangeOf(f) == {f[i] : i \in DOMAIN f}

IndexIn(f, c) == CHOOSE i \in DOMAIN f : f[i] = c

is_alphabetic(c) == c \in RangeOf(LowerCase) \cup RangeOf(UpperCase)

is_ascii_digit(c) == c \in RangeOf(DigitChars)

is_whitespace(c) == c \in {" ", "\t", "\n", "\r"}

to_digit(c) == IndexIn(DigitChars, c) - 1

to_ascii_lowercase(c) ==
    IF c \in RangeOf(UpperCase) THEN LowerCase[IndexIn(UpperCase, c)] ELSE c

to_lowercase(s) == [i \in DOMAIN s |-> to_ascii_lowercase(s[i])]

\* &s[n..]
From(s, n) == SubSeq(s, n + 1, Len(s))

starts_with(s, prefix) ==
    Len(prefix) <= Len(s) /\ SubSeq(s, 1, Len(prefix)) = prefix

RECURSIVE trim_start(_)
trim_start(s) ==
    IF s # <<>> /\ is_whitespace(Head(s)) THEN trim_start(Tail(s)) ELSE s

RECURSIVE trim_end(_)
trim_end(s) ==
    IF s # <<>> /\ is_whitespace(s[Len(s)])
    THEN trim_end(SubSeq(s, 1, Len(s) - 1))
    ELSE s

trim(s) == trim_end(trim_start(s))

NotFound == -1

\* str::find(c): the 0-based index of the first c, or None
find(s, c) ==
    LET hits == {i \in DOMAIN s : s[i] = c}
    IN IF hits = {} THEN NotFound
       ELSE (CHOOSE i \in hits : \A j \in hits : i <= j) - 1

\* str::split(c): the pieces between the occurrences of c, at least one piece
RECURSIVE split(_, _)
split(s, c) ==
    LET at == find(s, c)
    IN IF at = NotFound THEN <<s>>
       ELSE <<SubSeq(s, 1, at)>> \o split(From(s, at + 1), c)

\* str::lines(): the pieces between line feeds, without a final empty piece
lines(s) ==
    LET pieces == split(s, "\n")
    IN IF pieces[Len(pieces)] = <<>>
       THEN SubSeq(pieces, 1, Len(pieces) - 1)
       ELSE pieces

\* str::parse for an unsigned integer: digits after an optional `+`, else None
RECURSIVE DigitsValue(_, _)
DigitsValue(s, acc) ==
    IF s = <<>> THEN acc ELSE DigitsValue(Tail(s), 10 * acc + to_digit(Head(s)))

NoNumber == [some |-> FALSE, value |-> 0]

parse_unsigned(s) ==
    LET digits == IF s # <<>> /\ Head(s) = "+" THEN Tail(s) ELSE s
    IN IF digits # <<>> /\ \A i \in DOMAIN digits : is_ascii_digit(digits[i])
       THEN [some |-> TRUE, value |-> DigitsValue(digits, 0)]
       ELSE NoNumber

\* str::parse for a signed integer: an optional `+` or `-`, then digits
parse_signed(s) ==
    IF s # <<>> /\ Head(s) = "-"
    THEN LET digits == Tail(s)
         IN IF digits # <<>> /\ \A i \in DOMAIN digits : is_ascii_digit(digits[i])
            THEN [some |-> TRUE, value |-> 0 - DigitsValue(digits, 0)]
            ELSE NoNumber
    ELSE parse_unsigned(s)

\* Result<(Output, &str)>; "panic" is an unwrap() that unwinds through scan
Ok(value, rest) == [status |-> "ok", value |-> value, rest |-> rest, error |-> ""]

Err(error) == [status |-> "err", value |-> <<>>, rest |-> <<>>, error |-> error]

Panic == [status |-> "panic", value |-> <<>>, rest |-> <<>>, error |-> ""]

\* find_matching: one opener is already open; the 0-based index of its closer
RECURSIVE find_matching_from(_, _, _, _, _)
find_matching_from(s, open, close, i, stack) ==
    IF i > Len(s) THEN NotFound
    ELSE IF s[i] = open THEN find_matching_from(s, open, close, i + 1, stack + 1)
    ELSE IF s[i] = close
    THEN IF stack - 1 = 0 THEN i - 1
         ELSE find_matching_from(s, open, close, i + 1, stack - 1)
    ELSE find_matching_from(s, open, close, i + 1, stack)

find_matching(s, open, close) == find_matching_from(s, open, close, 1, 1)

\* Instrument::from_str: a name of the known table, whatever its case
InstrumentTable ==
    {<<<<"s", "i", "n", "e">>, "SineWave">>, <<<<"s", "i", "n", "e", "w", "a", "v", "e">>, "SineWave">>,
     <<<<"p", "i", "a", "n", "o">>, "Piano">>}

InstrumentFromStr(name) ==
    LET hits == {e \in InstrumentTable : e[1] = to_lowercase(name)}
    IN IF hits = {} THEN Err("UnknownInstrument")
       ELSE Ok((CHOOSE e \in hits : TRUE)[2], <<>>)

RECURSIVE Gcd(_, _)
Gcd(a, b) == IF b = 0 THEN a ELSE Gcd(b, a % b)

Abs(n) == IF n < 0 THEN 0 - n ELSE n

\* Ratio::new(numer, denom), denom # 0: lowest terms, positive denominator
Ratio(numer, denom) ==
    LET g == Gcd(Abs(numer), Abs(denom))
        sign == IF denom < 0 THEN 0 - 1 ELSE 1
    IN <<sign * (numer \div g), sign * (denom \div g)>>

\* MusicTime::beats(n), and MusicTime(0, Beat::new(num, denom))
Beats(n) == [type |-> "beats", num |-> n, denom |-> 1]

BeatOf(num, denom) == [type |-> "beat", num |-> num, denom |-> denom]

NoteNumber_from_c(c) ==
    CASE c = "c" -> 0 [] c = "d" -> 2 [] c = "e" -> 4 [] c = "f" -> 5
      [] c = "g" -> 7 [] c = "a" -> 9 [] c = "b" -> 11

NoteNumber(c) ==
    CASE c = "a" -> 0 [] c = "b" -> 2 [] c = "c" -> 3 [] c = "d" -> 5
      [] c = "e" -> 7 [] c = "f" -> 8 [] c = "g" -> 10

TerminalNote(octave, note) == [type |-> "Note", pitch |-> <<octave, note>>]

TerminalRest == [type |-> "Rest", pitch |-> <<0, 0>>]

NoteScanner(input) ==
    IF input = <<>> THEN Err("Generic")
    ELSE LET first == Head(input)
         IN IF first = "_" THEN Ok(TerminalRest, Tail(input))
            ELSE LET digit == is_ascii_digit(first)
                     octave == IF digit THEN to_digit(first) ELSE 4
                     consumed == IF digit THEN 2 ELSE 1
                 IN IF digit /\ Len(input) < 2 THEN Err("Generic")
                    ELSE LET next == to_ascii_lowercase(IF digit THEN input[2] ELSE first)
                         IN IF next \notin {"a", "b", "c", "d", "e", "f", "g"}
                            THEN Err("Generic")
                            ELSE LET note == NoteNumber(next)
                                     after == From(input, consumed)
                                 IN IF after # <<>> /\ Head(after) = "#"
                                    THEN Ok(TerminalNote(octave, note + 1),
                                            From(input, consumed + 1))
                                    ELSE IF after # <<>> /\ Head(after) = "b"
                                    THEN Ok(TerminalNote(octave, (note + 11) % 12),
                                            From(input, consumed + 1))
                                    ELSE Ok(TerminalNote(octave, note), after)

DurationScanner(input) ==
    IF input # <<>> /\ Head(input) = "<"
    THEN LET end == find_matching(Tail(input), "<", ">")
         IN IF end = NotFound THEN Err("Generic")
            ELSE LET duration == SubSeq(input, 2, end + 1)
                     rest == From(input, end + 2)
                 IN IF find(duration, "/") # NotFound
                    THEN LET parts == split(duration, "/")
                             num == parse_unsigned(parts[1])
                             denom == parse_unsigned(parts[2])
                         IN IF num.some /\ denom.some
                            THEN IF denom.value = 0 THEN Panic
                                 ELSE Ok(BeatOf(num.value, denom.value), rest)
                            ELSE Ok(Beats(1), rest)
                    ELSE LET duration_int == parse_unsigned(duration)
                         IN Ok(Beats(IF duration_int.some THEN duration_int.value ELSE 0),
                               rest)
    ELSE Ok(Beats(1), input)

FractionScanner(input) ==
    LET parts == split(input, "/")
        num == parse_signed(parts[1])
        denom == IF Len(parts) >= 2 THEN parse_signed(parts[2]) ELSE NoNumber
    IN IF num.some /\ denom.some
       THEN IF denom.value = 0 THEN Err("Generic")
            ELSE Ok(Ratio(num.value, denom.value), <<>>)
       ELSE IF num.some THEN Ok(Ratio(num.value, 1), <<>>)
       ELSE Err("Generic")

is_nt_char(c) == is_alphabetic(c) \/ is_ascii_digit(c) \/ c \in {"-", "/", "#", "?"}

\* the length of the longest prefix of s made of characters of the set chars
RECURSIVE PrefixLen(_, _)
PrefixLen(s, chars) ==
    IF s # <<>> /\ Head(s) \in chars THEN 1 + PrefixLen(Tail(s), chars) ELSE 0

\* the value of an expression that is computed once and then used: Only({e(x) : x \in {v}})
Only(S) == CHOOSE v \in S : TRUE

NonTerminalScanner(input) ==
    IF input = <<>> THEN Err("Generic")
    ELSE IF ~is_nt_char(Head(input)) THEN Err("Generic")
    ELSE LET n == PrefixLen(input, {c \in RangeOf(input) : is_nt_char(c)})
         IN Ok(SubSeq(input, 1, n), From(input, n))

\* Instrument::parse(): the names collected by InstrumentScanner, unwrapped
InstrumentOfName(name, rest) ==
    LET parsed == InstrumentFromStr(name)
    IN IF parsed.status # "ok" THEN Panic ELSE Ok(parsed.value, rest)

InstrumentScanner(input) ==
    IF input = <<>> THEN Err("Generic")
    ELSE IF ~is_alphabetic(Head(input)) THEN Err("Generic")
    ELSE LET n == PrefixLen(input, {c \in RangeOf(input) :
                        is_alphabetic(c) \/ is_ascii_digit(c) \/ c = "_"})
         IN InstrumentOfName(SubSeq(input, 1, n), From(input, n + 1))

VolumeScanner(input) ==
    IF input = <<>> THEN Err("Generic")
    ELSE IF ~is_ascii_digit(Head(input)) THEN Err("Generic")
    ELSE LET n == PrefixLen(input, {c \in RangeOf(input) : is_ascii_digit(c)})
         IN Ok(DigitsValue(SubSeq(input, 1, n), 0), From(input, n + 1))

ChangeInstrumentControl(instrument) ==
    [type |-> "ChangeInstrument", instrument |-> instrument, volume |-> 0]

ChangeVolumeControl(volume) ==
    [type |-> "ChangeVolume", instrument |-> "", volume |-> volume]

MetaControlScanner(input) ==
    IF input = <<>> THEN Err("Generic")
    ELSE IF Len(input) < 2 \/ input[2] # "=" THEN Err("Generic")
    ELSE IF Head(input) = "i"
    THEN Only({IF r.status # "ok" THEN r
               ELSE Ok(ChangeInstrumentControl(r.value), r.rest) :
                   r \in {InstrumentScanner(From(input, 2))}})
    ELSE IF Head(input) = "v"
    THEN Only({IF r.status # "ok" THEN r
               ELSE Ok(ChangeVolumeControl(r.value), r.rest) :
                   r \in {VolumeScanner(From(input, 2))}})
    ELSE Err("Generic")

TerminalScanner(input) ==
    IF starts_with(input, <<":">>)
    THEN Only({IF r.status # "ok" THEN r
               ELSE Ok([type |-> "Meta", control |-> r.value], r.rest) :
                   r \in {MetaControlScanner(From(input, 1))}})
    ELSE Only({IF note.status # "ok" THEN note
               ELSE Only({IF duration.status # "ok" THEN duration
                          ELSE Ok([type |-> "Music", note |-> note.value,
                                   duration |-> duration.value], duration.rest) :
                              duration \in {DurationScanner(note.rest)}}) :
                   note \in {NoteScanner(input)}})

SymbolScanner(input) ==
    IF starts_with(input, <<":">>)
    THEN Only({IF r.status # "ok" THEN r
               ELSE Ok([type |-> "T", terminal |-> r.value], r.rest) :
                   r \in {TerminalScanner(From(input, 1))}})
    ELSE Only({IF r.status # "ok" THEN r
               ELSE Ok([type |-> "NT", name |-> r.value], r.rest) :
                   r \in {NonTerminalScanner(input)}})

\* ConsumeScanner, applied to the result of the scanner it wraps
consume_any(r) == r

consume(r) ==
    IF r.status = "ok" /\ r.rest # <<>> THEN Err("Generic") ELSE r

MusicTransform(type, num, factor) == [type |-> type, num |-> num, factor |-> factor]

MusicTransformScanner(input) ==
    IF input = <<>> THEN Err("Generic")
    ELSE IF Head(input) = "x"
    THEN LET num == parse_unsigned(From(input, 1))
         IN IF num.some THEN Ok(MusicTransform("Repeat", num.value, <<1, 1>>), <<>>)
            ELSE Err("Generic")
    ELSE IF Head(input) = "T"
    THEN LET num == parse_signed(From(input, 1))
         IN IF num.some THEN Ok(MusicTransform("Transpose", num.value, <<1, 1>>), <<>>)
            ELSE Err("Generic")
    ELSE IF starts_with(input, <<">", ">">>)
    THEN LET r == consume(FractionScanner(From(input, 2)))
         IN IF r.status = "err" THEN Err("Generic")
            ELSE IF r.status = "panic" \/ r.value[1] = 0 THEN Panic
            ELSE Ok(MusicTransform("Compression", 0, Ratio(r.value[2], r.value[1])), r.rest)
    ELSE Err("Generic")

RECURSIVE MusicStringScanner(_)
RECURSIVE MusicPrimitiveScanner(_)

\* the try_fold over the branches after the first: the first error ends it
RECURSIVE ScanRestParts(_, _)
ScanRestParts(vec, rest_parts) ==
    IF rest_parts = <<>> THEN Ok(vec, <<>>)
    ELSE Only({IF res.status # "ok" THEN res
               ELSE ScanRestParts(Append(vec, res.value), Tail(rest_parts)) :
                   res \in {MusicStringScanner(Head(rest_parts))}})

\* the body of MusicPrimitiveSplitScanner::scan once the closing brace is found
SplitParts(rest, end, parts) ==
    Only({IF first.status # "ok" THEN first
          ELSE Only({IF all.status # "ok" THEN all
                     ELSE Ok([type |-> "Split", branches |-> all.value],
                             From(rest, end + 1)) :
                         all \in {ScanRestParts(<<first.value>>, Tail(parts))}}) :
              first \in {consume(MusicStringScanner(parts[1]))}})

MusicPrimitiveSplitScanner(input) ==
    IF input # <<>> /\ Head(input) = "{"
    THEN LET rest == From(input, 1)
             end == find_matching(rest, "{", "}")
         IN IF end = NotFound THEN Err("Generic")
            ELSE Only({SplitParts(rest, end, parts) :
                          parts \in {split(SubSeq(rest, 1, end), "|")}})
    ELSE Err("Generic")

\* the body of MusicPrimitiveRepeatScanner::scan once both closing brackets are found
TransformParts(repeat_num, rest, end_bracket) ==
    Only({IF music_string.status # "ok" THEN music_string
          ELSE Only({IF transform.status # "ok" THEN transform
                     ELSE Ok([type |-> "Transform",
                              transform |-> transform.value,
                              content |-> music_string.value],
                             From(rest, end_bracket + 1)) :
                         transform \in {consume(MusicTransformScanner(repeat_num))}}) :
              music_string \in {consume(MusicStringScanner(SubSeq(rest, 1, end_bracket)))}})

MusicPrimitiveRepeatScanner(input) ==
    IF input # <<>> /\ Head(input) = "["
    THEN LET repeat_num_end == find(input, "]")
         IN IF repeat_num_end = NotFound THEN Err("Generic")
            ELSE IF ~starts_with(From(input, repeat_num_end + 1), <<"[">>)
            THEN Err("Generic")
            ELSE LET repeat_num == SubSeq(input, 2, repeat_num_end)
                     rest == From(input, repeat_num_end + 2)
                     end_bracket == find_matching(rest, "[", "]")
                 IN IF end_bracket = NotFound THEN Err("Generic")
                    ELSE TransformParts(repeat_num, rest, end_bracket)
    ELSE Err("Generic")

MusicPrimitiveScanner(input) ==
    IF starts_with(input, <<"{">>) THEN MusicPrimitiveSplitScanner(input)
    ELSE IF starts_with(input, <<"[">>) THEN MusicPrimitiveRepeatScanner(input)
    ELSE Only({IF r.status # "ok" THEN r
               ELSE Ok([type |-> "Simple", symbol |-> r.value], r.rest) :
                   r \in {SymbolScanner(input)}})

\* the while loop of MusicStringScanner::scan
MusicStringLoop_once(music_string, remaining_input) ==
    IF remaining_input = <<>> THEN Ok(music_string, remaining_input)
    ELSE Only({IF r.status # "ok" THEN r
               ELSE Ok(Append(music_string, r.value), r.rest) :
                   r \in {MusicPrimitiveScanner(trim_start(remaining_input))}})

RECURSIVE MusicStringLoop(_, _)
MusicStringLoop(music_string, remaining_input) ==
    IF remaining_input = <<>> THEN Ok(music_string, remaining_input)
    ELSE Only({IF trimmed = <<>> THEN Ok(music_string, trimmed)
               ELSE Only({IF r.status # "ok" THEN r
                          ELSE MusicStringLoop(Append(music_string, r.value), r.rest) :
                              r \in {MusicPrimitiveScanner(trimmed)}}) :
                   trimmed \in {trim_start(remaining_input)}})

MusicStringScanner(input) ==
    Only({MusicStringLoop(<<>>, s) : s \in {input}})

\* impl FromStr for MusicString
from_str(s) == consume(MusicStringScanner(s))

StringScanner(string, input) ==
    IF starts_with(input, string) THEN Ok(string, From(input, Len(string)))
    ELSE Err("Generic")

ProductionScanner(input) ==
    Only({IF nt.status # "ok" THEN nt
          ELSE Only({IF eq.status # "ok" THEN eq
                     ELSE Only({IF str.status # "ok" THEN str
                                ELSE Ok([nt |-> nt.value, string |-> str.value], str.rest) :
                                    str \in {MusicStringScanner(eq.rest)}}) :
                         eq \in {StringScanner(<<"=">>, trim(nt.rest))}}) :
              nt \in {NonTerminalScanner(input)}})

\* the productions of the lines after the start line: the first error ends it
RECURSIVE ScanProductions(_, _)
ScanProductions(productions, more) ==
    IF more = <<>> THEN Ok(productions, <<>>)
    ELSE Only({IF r.status # "ok" THEN r
               ELSE ScanProductions(Append(productions, r.value), Tail(more)) :
                   r \in {ProductionScanner(trim(Head(more)))}})

StartPrefix == <<"s", "t", "a", "r", "t", " ">>

CommentPrefix == <<"/", "/">>

\* the trimmed lines that are neither empty nor comments
GrammarLines(input) ==
    Only({SelectSeq([i \in DOMAIN all |-> trim(all[i])],
                    LAMBDA line : line # <<>> /\ ~starts_with(line, CommentPrefix)) :
              all \in {lines(input)}})

\* the body of GrammarScanner::scan on the lines it keeps
GrammarOfLines(kept) ==
    IF kept = <<>> THEN Err("Generic")
    ELSE IF ~starts_with(kept[1], StartPrefix) THEN Err("Generic")
    ELSE Only({IF start.status # "ok" THEN start
               ELSE Only({IF productions.status # "ok" THEN productions
                          ELSE Ok([start |-> start.value,
                                   productions |-> productions.value], <<>>) :
                              productions \in {ScanProductions(<<>>, Tail(kept))}}) :
                   start \in {NonTerminalScanner(From(kept[1], Len(StartPrefix)))}})

GrammarScanner(input) ==
    Only({GrammarOfLines(kept) : kept \in {GrammarLines(input)}})

\* ------------------------------------------------------------- player.rs
\* Pitch::to_midi_note
to_midi_note(pitch) == 12 * (pitch[1] + 1) + pitch[2]

Min(a, b) == IF a < b THEN a ELSE b

Max(a, b) == IF a > b THEN a ELSE b

\* ((event.volume.0 as f32 / 100.) * 128.) as u8: the cast truncates and
\* saturates at 255
ScaledVolume(volume) == Min(255, (volume * 128) \div 100)

\* u7::from(u8) and u4::from(u8) keep the low seven and four bits
u7(raw) == raw % 128

u4(raw) == raw % 16

\* note_on_message / note_off_message: the LiveEvent written to the wire
MidiMessage(kind, channel, key, vol) ==
    [kind |-> kind, channel |-> u4(channel), key |-> u7(key), vel |-> u7(vol)]

\* MidiPlayer::get_port_channel
get_port_channel(mapping, instrument) ==
    IF instrument \in DOMAIN mapping
    THEN [some |-> TRUE, value |-> mapping[instrument]]
    ELSE [some |-> FALSE, value |-> <<0, 0>>]

\* ------------------------------------------------------------- state
VARIABLES
    scheduler,          \* the Scheduler struct
    sounds,             \* Vec returned by the latest get_next_events_and_update
    current_track_pos,  \* argument of the latest call (-1: no call yet)
    call_status,        \* "none", "returned" or "diverged" (the call never returns)
    sim,                \* simulate_play_collect_events: duration, interval, i
    emitted_sounds,     \* simulate_play_collect_events: the accumulated Vec
    pc,                 \* run: position of the scheduler thread
    clock,              \* run: start_time.elapsed() at the latest tick
    ticks,              \* run: number of loop iterations started
    sent,               \* run: every sound sent on the channel, in send order
    music_string,       \* compose: the MusicString it is called on
    composed,           \* compose: its outcome ("none" before the call)
    scan_input,         \* scan: the &str handed to the scanner
    scan_entry,         \* scan: the scanner that was called ("none" before the call)
    scanned,            \* scan: the Result of S.scan(input)
    consumed,           \* scan: the Result of consume(S).scan(input)
    now,                \* session: wall-clock time since the session began
    channel,            \* session: the mpsc channel between the two threads
    player,             \* session: the player thread in play_from_ordered_channel
    midi,               \* session: MidiPlayer (mapping, port mutexes, workers, wire)
    control             \* session: the scheduler's mutex and the external controller

vars == <<scheduler, sounds, current_track_pos, call_status, sim, emitted_sounds,
          pc, clock, ticks, sent, music_string, composed,
          scan_input, scan_entry, scanned, consumed, now, channel, player, midi,
          control>>

scanVars == <<scan_input, scan_entry, scanned, consumed>>

playVars == <<now, channel, player, midi, control>>

composeVars == <<music_string, composed>>

schedVars == <<scheduler, sounds, current_track_pos, call_status>>

simVars == <<sim, emitted_sounds>>

runVars == <<pc, clock, ticks, sent>>

\* ------------------------------------------------------------ inputs
Waltz == <<3, 4>>

EventsUniverse == {Event(st, 1, 100, <<4, st>>) : st \in 0..MaxStart}

SeqsUpTo(S, n) == UNION {[1..k -> S] : k \in 0..n}

EventLists == SeqsUpTo(EventsUniverse, MaxEvents)

Compositions ==
    LET one == {<<Track("SineWave", l)>> : l \in EventLists}
        two == {<<Track("SineWave", l), Track("Piano", m)>> :
                    l \in SeqsUpTo(EventsUniverse, 1), m \in SeqsUpTo(EventsUniverse, 1)}
    IN {[tracks |-> t, time_signature |-> Common] : t \in {<<>>} \cup one \cup two}
           \cup {[tracks |-> <<Track("Piano", <<Event(1, 1, 100, <<4, 1>>)>>)>>,
                  time_signature |-> Waltz]}

ElapsedInputs == {t \in 0..MaxElapsed : t % 5 \in {0, 1}}

\* struct literal: every field is public, nothing is validated
NewScheduler(lookahead, looped, loop_time) ==
    [bpm |-> 120, time_signature |-> Common, tracks |-> <<>>,
     lookahead |-> lookahead, looped |-> looped, loop_time |-> loop_time]

Configs ==
    {c \in {NewScheduler(la, lp, lt) :
               la \in 0..MaxLookahead, lp \in BOOLEAN, lt \in 0..MaxLoopTime} :
        ~c.looped => c.loop_time = MaxLoopTime}

SimIdle ==
    /\ sim = [duration |-> 0, interval |-> 1, i |-> 0]
    /\ emitted_sounds = <<>>

RunIdle ==
    /\ pc = "idle"
    /\ clock = 0
    /\ ticks = 0
    /\ sent = <<>>

NoOutcome == [status |-> "none", tracks |-> <<>>, time_signature |-> Common]

ComposeIdle ==
    /\ music_string = <<>>
    /\ composed = NoOutcome

NoScan == [status |-> "none", value |-> <<>>, rest |-> <<>>, error |-> ""]

ScanIdle ==
    /\ scan_input = <<>>
    /\ scan_entry = "none"
    /\ scanned = NoScan
    /\ consumed = NoScan

NoSound == [start |-> 0, duration |-> 0, volume |-> 0, pitch |-> <<0, 0>>, instrument |-> "SineWave"]

NoPlayer ==
    [kind |-> "midi", pc |-> "idle", start_time |-> 0, end |-> 0, current_time |-> 0, wake |-> 0,
     event |-> NoSound, received |-> <<>>, dispatched |-> <<>>, returned_at |-> 0]

NoMidi == [mapping |-> <<>>, holders |-> <<>>, workers |-> <<>>, wire |-> <<>>]

\* no controller: the scheduler's mutex is free and stays free
NoControl == [holder |-> "none", pc |-> "off", swaps |-> 0]

PlayIdle ==
    /\ now = 0
    /\ channel = [queue |-> <<>>, sender |-> FALSE, receiver |-> FALSE]
    /\ player = NoPlayer
    /\ midi = NoMidi
    /\ control = NoControl

\* ------------------------------------------------ scheduler, call level
Init ==
    /\ scheduler \in Configs
    /\ sounds = <<>>
    /\ current_track_pos = -1
    /\ call_status = "none"
    /\ SimIdle
    /\ RunIdle
    /\ ComposeIdle
    /\ ScanIdle
    /\ PlayIdle

SetComposition ==
    /\ call_status # "diverged"
    /\ \E composition \in Compositions :
           scheduler' = set_composition(scheduler, composition)
    /\ sounds' = <<>>
    /\ current_track_pos' = -1
    /\ call_status' = "none"
    /\ UNCHANGED <<simVars, runVars, composeVars, scanVars, playVars>>

\* one call scheduler.get_next_events_and_update(t)
Call(t) ==
    /\ current_track_pos' = t
    /\ IF CallDiverges(scheduler, t)
       THEN /\ call_status' = "diverged"
            /\ UNCHANGED <<scheduler, sounds>>
       ELSE /\ call_status' = "returned"
            /\ sounds' = SortedSounds(scheduler, t)
            /\ scheduler' = [scheduler EXCEPT !.tracks = UpdatedTracks(scheduler, t)]

GetNextEventsAndUpdate ==
    /\ call_status # "diverged"
    /\ \E t \in ElapsedInputs : Call(t)
    /\ UNCHANGED <<simVars, runVars, composeVars, scanVars, playVars>>

Next == SetComposition \/ GetNextEventsAndUpdate

Spec == Init /\ [][Next]_vars

\* ------------------------------- scheduler.rs: simulate_play_collect_events
SimIntervals == {5, 10, 20}

SimDurations == {MaxElapsed \div 2, MaxElapsed}

SimCalls == sim.duration \div sim.interval

InitSim ==
    /\ \E c \in Configs, composition \in Compositions :
           scheduler = set_composition(c, composition)
    /\ sounds = <<>>
    /\ current_track_pos = -1
    /\ call_status = "none"
    /\ sim \in [duration : SimDurations, interval : SimIntervals, i : {0}]
    /\ emitted_sounds = <<>>
    /\ RunIdle
    /\ ComposeIdle
    /\ ScanIdle
    /\ PlayIdle

SimulateStep ==
    /\ call_status # "diverged"
    /\ sim.i < SimCalls
    /\ Call(sim.i * sim.interval)
    /\ sim' = [sim EXCEPT !.i = @ + 1]
    /\ emitted_sounds' = emitted_sounds \o (IF call_status' = "returned" THEN sounds' ELSE <<>>)
    /\ UNCHANGED <<runVars, composeVars, scanVars, playVars>>

NextSim == SimulateStep

SpecSim == InitSim /\ [][NextSim]_vars

\* ------------------------------------------------- local_playback.rs: run
RunSteps == {5, 10}

InitRun ==
    /\ \E c \in Configs, composition \in Compositions :
           scheduler = set_composition(c, composition)
    /\ sounds = <<>>
    /\ current_track_pos = -1
    /\ call_status = "none"
    /\ SimIdle
    /\ pc = "loop"
    /\ clock = 0
    /\ ticks = 0
    /\ sent = <<>>
    /\ ComposeIdle
    /\ ScanIdle
    /\ PlayIdle

\* if scheduler.ended() { break; }  -- the thread ends and drops the sender
RunBreak ==
    /\ pc = "loop"
    /\ ended(scheduler)
    /\ pc' = "exited"
    /\ UNCHANGED <<schedVars, simVars, clock, ticks, sent, composeVars, scanVars, playVars>>

\* one iteration: read the clock, query the scheduler, send, sleep
RunTick ==
    /\ pc = "loop"
    /\ ~ended(scheduler)
    /\ \E d \in (IF ticks = 0 THEN {0} ELSE {}) \cup RunSteps :
        /\ clock + d <= MaxElapsed
        /\ clock' = clock + d
        /\ Call(clock + d)
    /\ ticks' = ticks + 1
    /\ IF call_status' = "diverged"
       THEN pc' = "hung" /\ sent' = sent
       ELSE /\ pc' = "loop"
            /\ sent' = sent \o [k \in 1..Len(sounds') |->
                                   [tick |-> ticks', sound |-> AtomicSoundFrom(sounds'[k])]]
    /\ UNCHANGED <<simVars, composeVars, scanVars, playVars>>

NextRun == RunBreak \/ RunTick

SpecRun == InitRun /\ [][NextRun]_vars

\* ------------------------ local_playback.rs: run_midi with a MidiPlayer
\* Time is the wall clock in twentieths of a second.  A thread that is not
\* asleep or blocked takes its next step before the clock advances; a
\* sleeping thread wakes at its deadline or up to MaxLate later
\* (thread::sleep sleeps at least the given duration).
SchedulerTickUnits == 10

MaxLate == 1

MaxNow == 80

OneSecond == 20

MaxSwaps == 1

MaxControlNow == 25

MaxSessionStart == 1

Ports == {0, 1}

PlayerThread == 0

Mappings ==
    {("SineWave" :> <<0, 0>>) @@ ("Piano" :> <<1, 0>>),
     ("SineWave" :> <<0, 0>>) @@ ("Piano" :> <<0, 1>>),
     ("SineWave" :> <<0, 0>>)}

NewMidiPlayer(mapping) ==
    [mapping |-> mapping, holders |-> [p \in Ports |-> {}], workers |-> <<>>, wire |-> <<>>]

SessionEvents == {Event(st, 1, 100, <<4, st>>) : st \in 0..MaxSessionStart}

\* one track of at most two events in start order, or two tracks of at most
\* one event each
SessionCompositions ==
    LET one == {<<Track("SineWave", l)>> :
                    l \in {m \in SeqsUpTo(SessionEvents, 2) :
                              \A i \in DOMAIN m : \A j \in DOMAIN m : i < j => m[i].start <= m[j].start}}
        two == {<<Track("SineWave", l), Track("Piano", m)>> :
                    l \in SeqsUpTo(SessionEvents, 1), m \in SeqsUpTo(SessionEvents, 1)}
    IN {[tracks |-> t, time_signature |-> Common] : t \in one \cup two}

\* the player of the session: a MidiPlayer with one of two mappings, or the
\* sine Player
SessionPlayers ==
    {[kind |-> "midi", mapping |-> ("SineWave" :> <<0, 0>>) @@ ("Piano" :> <<1, 0>>)],
     [kind |-> "midi", mapping |-> ("SineWave" :> <<0, 0>>)],
     [kind |-> "sine", mapping |-> <<>>]}

InitPlay ==
    /\ \E c \in Configs, composition \in SessionCompositions :
           /\ ~c.looped
           /\ c.lookahead \in {0, MaxLookahead}
           /\ scheduler = set_composition(c, composition)
    /\ sounds = <<>>
    /\ current_track_pos = -1
    /\ call_status = "none"
    /\ SimIdle
    /\ pc = "loop"
    /\ clock = 0
    /\ ticks = 0
    /\ sent = <<>>
    /\ ComposeIdle
    /\ ScanIdle
    /\ now = 0
    /\ channel = [queue |-> <<>>, sender |-> TRUE, receiver |-> TRUE]
    /\ \E p \in SessionPlayers :
           /\ player = [NoPlayer EXCEPT !.pc = "start", !.kind = p.kind]
           /\ midi = NewMidiPlayer(p.mapping)
    /\ control = NoControl

\* if guard.ended() { drop(guard); break; }  -- the closure ends, the sender
\* it owns is dropped
SchedulerBreak ==
    /\ pc = "loop"
    /\ ended(scheduler)
    /\ pc' = "exited"
    /\ channel' = [channel EXCEPT !.sender = FALSE]
    /\ UNCHANGED <<schedVars, simVars, clock, ticks, sent, composeVars, scanVars, now, player, midi,
                   control>>

\* one iteration: read the clock, query the scheduler, send every event;
\* send(..).unwrap() panics when the receiver is gone
SchedulerIterate ==
    /\ pc = "loop"
    /\ ~ended(scheduler)
    /\ Call(now)
    /\ clock' = now
    /\ ticks' = ticks + 1
    /\ IF call_status' = "diverged"
       THEN pc' = "hung" /\ UNCHANGED <<sent, channel>>
       ELSE IF sounds' # <<>> /\ ~channel.receiver
       THEN /\ pc' = "panicked"
            /\ channel' = [channel EXCEPT !.sender = FALSE]
            /\ sent' = sent
       ELSE /\ pc' = "sleep"
            /\ sent' = sent \o [k \in 1..Len(sounds') |->
                                   [tick |-> ticks', sound |-> AtomicSoundFrom(sounds'[k])]]
            /\ channel' = [channel EXCEPT !.queue =
                              @ \o [k \in 1..Len(sounds') |-> AtomicSoundFrom(sounds'[k])]]
    /\ UNCHANGED <<simVars, composeVars, scanVars, now, player, midi, control>>

\* thread::sleep(Duration::from_millis(scheduler_tick_ms)) is over
SchedulerWake ==
    /\ pc = "sleep"
    /\ now >= clock + SchedulerTickUnits
    /\ pc' = "loop"
    /\ UNCHANGED <<schedVars, simVars, clock, ticks, sent, composeVars, scanVars, playVars>>

otherVars == <<schedVars, simVars, runVars, composeVars, scanVars, control>>

WaitTime_none(event, elapsed) == 0

\* let wait_time = event.start - elapsed;
WaitTime(event, elapsed) == event.start - elapsed

\* Player::play_from_ordered_channel sets its start time 0.1 s in the past
StartPause(kind) == IF kind = "sine" THEN 2 ELSE 0

\* let start_time = SystemTime::now(); let mut end = start_time;
PlayerStart ==
    /\ player.pc = "start"
    /\ player' = [player EXCEPT !.pc = "recv",
                                !.start_time = now - StartPause(player.kind),
                                !.end = now - StartPause(player.kind)]
    /\ UNCHANGED <<otherVars, now, channel, midi>>

\* the iterator yields the next event; the thread reads the clock and
\* decides whether to sleep
PlayerReceive ==
    /\ player.pc = "recv"
    /\ channel.queue # <<>>
    /\ LET event == Head(channel.queue)
           wait_time == WaitTime(event, now - player.start_time)
       IN player' = [player EXCEPT !.pc = IF wait_time > 0 THEN "sleep" ELSE "play",
                                   !.event = event,
                                   !.current_time = now,
                                   !.wake = now + Max(wait_time, 0),
                                   !.received = Append(@, [sound |-> event, at |-> now])]
    /\ channel' = [channel EXCEPT !.queue = Tail(@)]
    /\ UNCHANGED <<otherVars, now, midi>>

\* the channel is empty and the sender is gone: the for loop ends, the
\* receiver is dropped, and the thread computes the final wait
PlayerEndOfStream ==
    /\ player.pc = "recv"
    /\ channel.queue = <<>>
    /\ ~channel.sender
    /\ player' = [player EXCEPT !.pc = "tail",
                                !.wake = IF player.end >= now THEN player.end ELSE now + OneSecond]
    /\ channel' = [channel EXCEPT !.receiver = FALSE]
    /\ UNCHANGED <<otherVars, now, midi>>

\* the sleep is over or was not needed: end is updated and self.play(event)
\* is called; MidiPlayer::play unwraps the port and channel of the instrument
\* and the connection of the port, Player::play hands the source to a sink
PlayerDispatch ==
    /\ \/ player.pc = "play"
       \/ player.pc = "sleep" /\ now >= player.wake
    /\ LET event == player.event
           target == get_port_channel(midi.mapping, event.instrument)
           panics == /\ player.kind = "midi"
                     /\ ~target.some \/ target.value[1] \notin DOMAIN midi.holders
       IN /\ player' = [player EXCEPT !.pc = IF panics THEN "panicked"
                                             ELSE IF player.kind = "midi" THEN "lock"
                                             ELSE "recv",
                                      !.end = Max(@, player.wake + event.duration),
                                      !.dispatched = Append(@, [sound |-> event, at |-> now])]
          /\ channel' = [channel EXCEPT !.receiver = IF panics THEN FALSE ELSE @]
    /\ UNCHANGED <<otherVars, now, midi>>

MutexFree_always(holders, port) == TRUE

\* Mutex::lock returns once no other thread holds the guard of this port
MutexFree(holders, port) == holders[port] = {}

PortOf(event) == get_port_channel(midi.mapping, event.instrument).value[1]

ChannelOf(event) == get_port_channel(midi.mapping, event.instrument).value[2]

\* arc.get(&port).unwrap().lock().unwrap()
PlayerLock ==
    /\ player.pc = "lock"
    /\ MutexFree(midi.holders, PortOf(player.event))
    /\ midi' = [midi EXCEPT !.holders[PortOf(player.event)] = @ \cup {PlayerThread}]
    /\ player' = [player EXCEPT !.pc = "locked"]
    /\ UNCHANGED <<otherVars, now, channel>>

\* conn.send(NoteOn), thread::spawn of the worker, return (the guard is
\* dropped)
PlayerNoteOn ==
    /\ player.pc = "locked"
    /\ LET event == player.event
           port == PortOf(event)
           note == to_midi_note(event.pitch)
           volume == ScaledVolume(event.volume)
           id == Len(player.dispatched)
       IN midi' = [midi EXCEPT
                      !.wire = Append(@, [message |-> MidiMessage("NoteOn", ChannelOf(event), note, volume),
                                          port |-> port, at |-> now, by |-> PlayerThread, sound |-> id]),
                      !.workers = Append(@, [pc |-> "sleep", wake |-> now + event.duration,
                                             port |-> port, channel |-> ChannelOf(event),
                                             key |-> note, vol |-> volume, sound |-> id]),
                      !.holders[port] = @ \ {PlayerThread}]
    /\ player' = [player EXCEPT !.pc = "recv"]
    /\ UNCHANGED <<otherVars, now, channel>>

\* the final sleep is over: play_from_ordered_channel returns
PlayerReturn ==
    /\ player.pc = "tail"
    /\ now >= player.wake
    /\ player' = [player EXCEPT !.pc = "returned", !.returned_at = now]
    /\ UNCHANGED <<otherVars, now, channel, midi>>

\* worker k: thread::sleep(duration) is over, lock the port
WorkerLock(k) ==
    /\ midi.workers[k].pc = "sleep"
    /\ now >= midi.workers[k].wake
    /\ MutexFree(midi.holders, midi.workers[k].port)
    /\ midi' = [midi EXCEPT !.holders[midi.workers[k].port] = @ \cup {k},
                            !.workers[k].pc = "locked"]
    /\ UNCHANGED <<otherVars, now, channel, player>>

\* worker k: conn.send(NoteOff); the closure ends and the guard is dropped
WorkerNoteOff(k) ==
    /\ midi.workers[k].pc = "locked"
    /\ LET w == midi.workers[k]
       IN midi' = [midi EXCEPT
                      !.wire = Append(@, [message |-> MidiMessage("NoteOff", w.channel, w.key, w.vol),
                                          port |-> w.port, at |-> now, by |-> k, sound |-> w.sound]),
                      !.holders[w.port] = @ \ {k},
                      !.workers[k].pc = "done"]
    /\ UNCHANGED <<otherVars, now, channel, player>>

WorkerLocks == \E k \in DOMAIN midi.workers : WorkerLock(k)

WorkerNoteOffs == \E k \in DOMAIN midi.workers : WorkerNoteOff(k)

\* some thread can take a step that is not the end of a sleep
Urgent ==
    \/ pc = "loop" /\ control.holder = "none"
    \/ pc \in {"locked", "called", "send"}
    \/ control.pc = "lock" /\ control.holder = "none"
    \/ control.pc = "locked"
    \/ player.pc \in {"start", "play", "locked"}
    \/ player.pc = "recv" /\ (channel.queue # <<>> \/ ~channel.sender)
    \/ player.pc = "lock" /\ MutexFree(midi.holders, PortOf(player.event))
    \/ \E k \in DOMAIN midi.workers : midi.workers[k].pc = "locked"

\* some sleeping thread has reached the latest time at which it wakes
Overdue ==
    \/ pc = "sleep" /\ now >= clock + SchedulerTickUnits + MaxLate
    \/ player.pc \in {"sleep", "tail"} /\ now >= player.wake + MaxLate
    \/ \E k \in DOMAIN midi.workers :
          /\ midi.workers[k].pc = "sleep"
          /\ now >= midi.workers[k].wake + MaxLate
          /\ MutexFree(midi.holders, midi.workers[k].port)

Running ==
    \/ pc \in {"loop", "locked", "called", "send", "sleep"}
    \/ player.pc \notin {"returned", "panicked"}
    \/ \E k \in DOMAIN midi.workers : midi.workers[k].pc # "done"

\* the time up to which a session is followed
Horizon == IF control.pc = "off" THEN MaxNow ELSE MaxControlNow

\* the clock advances
Tick ==
    /\ now < Horizon
    /\ Running
    /\ ~Urgent
    /\ ~Overdue
    /\ now' = now + 1
    /\ UNCHANGED <<otherVars, channel, player, midi>>

SchedulerThread == SchedulerBreak \/ SchedulerIterate \/ SchedulerWake

PlayerSteps ==
    \/ PlayerStart
    \/ PlayerReceive
    \/ PlayerEndOfStream
    \/ PlayerDispatch
    \/ PlayerLock
    \/ PlayerNoteOn
    \/ PlayerReturn

NextPlay ==
    \/ SchedulerBreak
    \/ SchedulerIterate
    \/ SchedulerWake
    \/ PlayerStart
    \/ PlayerReceive
    \/ PlayerEndOfStream
    \/ PlayerDispatch
    \/ PlayerLock
    \/ PlayerNoteOn
    \/ PlayerReturn
    \/ WorkerLocks
    \/ WorkerNoteOffs
    \/ Tick

SpecPlay == InitPlay /\ [][NextPlay]_vars

\* the operating system schedules every thread fairly and time passes
SpecPlayFair ==
    /\ SpecPlay
    /\ WF_vars(SchedulerThread)
    /\ WF_vars(PlayerSteps)
    /\ WF_vars(WorkerLocks \/ WorkerNoteOffs)
    /\ WF_vars(Tick)

\* --------------------- player.rs: MidiPlayer on a stream already sent
\* play_from_ordered_channel of a MidiPlayer on a channel that holds a whole
\* stream and whose sender is gone (the scheduler thread has ended)
AtomicSound(start, duration, volume, pitch, instrument) ==
    [start |-> start, duration |-> duration, volume |-> volume,
     pitch |-> pitch, instrument |-> instrument]

Volumes == 0..100

SecondSounds ==
    {AtomicSound(st, 9, 50, <<4, 3>>, i) : st \in {0, 10}, i \in {"SineWave", "Piano"}}

Streams ==
    {<<AtomicSound(0, 9, v, <<4, 3>>, "SineWave")>> : v \in Volumes}
        \cup {<<AtomicSound(0, 9, 100, <<4, 3>>, i), s>> :
                 i \in {"SineWave", "Piano"}, s \in SecondSounds}

InitMidi ==
    /\ scheduler = NewScheduler(Measures(1), FALSE, Measures(1))
    /\ sounds = <<>>
    /\ current_track_pos = -1
    /\ call_status = "none"
    /\ SimIdle
    /\ pc = "exited"
    /\ clock = 0
    /\ ticks = 0
    /\ sent = <<>>
    /\ ComposeIdle
    /\ ScanIdle
    /\ now = 0
    /\ \E stream \in Streams : channel = [queue |-> stream, sender |-> FALSE, receiver |-> TRUE]
    /\ player = [NoPlayer EXCEPT !.pc = "start"]
    /\ \E mapping \in Mappings : midi = NewMidiPlayer(mapping)
    /\ control = NoControl

NextMidi ==
    \/ PlayerStart
    \/ PlayerReceive
    \/ PlayerEndOfStream
    \/ PlayerDispatch
    \/ PlayerLock
    \/ PlayerNoteOn
    \/ PlayerReturn
    \/ WorkerLocks
    \/ WorkerNoteOffs
    \/ Tick

SpecMidi == InitMidi /\ [][NextMidi]_vars

\* the operating system schedules the player and every worker fairly
SpecMidiFair ==
    /\ SpecMidi
    /\ WF_vars(PlayerSteps)
    /\ WF_vars(WorkerLocks \/ WorkerNoteOffs)
    /\ WF_vars(Tick)

\* ------- local_playback.rs: run_midi, the scheduler behind its mutex
\* The scheduler thread's loop step by step, with an external controller
\* (a REPL) that holds a clone of the Arc and swaps the composition.
ControlLoopTimes == {0, 2}

ControllerCompositions ==
    {[tracks |-> <<Track(i, l)>>, time_signature |-> Common] :
        i \in {"SineWave", "Piano"}, l \in SeqsUpTo(SessionEvents, 1)}

InitControl ==
    /\ \E c \in Configs, composition \in ControllerCompositions :
           /\ c.lookahead = MaxLookahead
           /\ c.looped => c.loop_time \in ControlLoopTimes
           /\ scheduler = set_composition(c, composition)
    /\ sounds = <<>>
    /\ current_track_pos = -1
    /\ call_status = "none"
    /\ SimIdle
    /\ pc = "loop"
    /\ clock = 0
    /\ ticks = 0
    /\ sent = <<>>
    /\ ComposeIdle
    /\ ScanIdle
    /\ now = 0
    /\ channel = [queue |-> <<>>, sender |-> TRUE, receiver |-> TRUE]
    /\ \E p \in SessionPlayers :
           /\ player = [NoPlayer EXCEPT !.pc = "start", !.kind = p.kind]
           /\ midi = NewMidiPlayer(p.mapping)
    /\ control = [holder |-> "none", pc |-> "idle", swaps |-> 0]

\* let mut guard = scheduler.lock().unwrap();
SchedulerLock ==
    /\ pc = "loop"
    /\ control.holder = "none"
    /\ pc' = "locked"
    /\ control' = [control EXCEPT !.holder = "scheduler"]
    /\ UNCHANGED <<schedVars, simVars, clock, ticks, sent, composeVars, scanVars,
                   now, channel, player, midi>>

\* if guard.ended() { drop(guard); break; }
SchedulerEnded ==
    /\ pc = "locked"
    /\ ended(scheduler)
    /\ pc' = "exited"
    /\ control' = [control EXCEPT !.holder = "none"]
    /\ channel' = [channel EXCEPT !.sender = FALSE]
    /\ UNCHANGED <<schedVars, simVars, clock, ticks, sent, composeVars, scanVars,
                   now, player, midi>>

\* let events = guard.get_next_events_and_update(elapsed_s);
SchedulerQuery ==
    /\ pc = "locked"
    /\ ~ended(scheduler)
    /\ Call(now)
    /\ clock' = now
    /\ ticks' = ticks + 1
    /\ pc' = IF call_status' = "diverged" THEN "hung" ELSE "called"
    /\ UNCHANGED <<simVars, sent, composeVars, scanVars, playVars>>

\* drop(guard);
SchedulerDrop ==
    /\ pc = "called"
    /\ pc' = "send"
    /\ control' = [control EXCEPT !.holder = "none"]
    /\ UNCHANGED <<schedVars, simVars, clock, ticks, sent, composeVars, scanVars,
                   now, channel, player, midi>>

\* for event in events { event_send.send(event).unwrap(); }
SchedulerSend ==
    /\ pc = "send"
    /\ IF sounds # <<>> /\ ~channel.receiver
       THEN /\ pc' = "panicked"
            /\ channel' = [channel EXCEPT !.sender = FALSE]
            /\ sent' = sent
       ELSE /\ pc' = "sleep"
            /\ sent' = sent \o [k \in 1..Len(sounds) |->
                                   [tick |-> ticks, sound |-> AtomicSoundFrom(sounds[k])]]
            /\ channel' = [channel EXCEPT !.queue =
                              @ \o [k \in 1..Len(sounds) |-> AtomicSoundFrom(sounds[k])]]
    /\ UNCHANGED <<schedVars, simVars, clock, ticks, composeVars, scanVars,
                   now, player, midi, control>>

\* the controller decides to swap the composition and calls lock()
ControllerRequest ==
    /\ control.pc = "idle"
    /\ control.swaps < MaxSwaps
    /\ control' = [control EXCEPT !.pc = "lock"]
    /\ UNCHANGED <<schedVars, simVars, runVars, composeVars, scanVars,
                   now, channel, player, midi>>

\* the controller's scheduler.lock() returns
ControllerLock ==
    /\ control.pc = "lock"
    /\ control.holder = "none"
    /\ control' = [control EXCEPT !.pc = "locked", !.holder = "controller"]
    /\ UNCHANGED <<schedVars, simVars, runVars, composeVars, scanVars,
                   now, channel, player, midi>>

\* guard.set_composition(composition); the guard is dropped
ControllerSetComposition ==
    /\ control.pc = "locked"
    /\ \E composition \in ControllerCompositions :
           scheduler' = set_composition(scheduler, composition)
    /\ control' = [holder |-> "none", pc |-> "idle", swaps |-> control.swaps + 1]
    /\ UNCHANGED <<sounds, current_track_pos, call_status, simVars, runVars,
                   composeVars, scanVars, now, channel, player, midi>>

GuardedSchedulerThread ==
    \/ SchedulerLock
    \/ SchedulerEnded
    \/ SchedulerQuery
    \/ SchedulerDrop
    \/ SchedulerSend
    \/ SchedulerWake

NextControl ==
    \/ SchedulerLock
    \/ SchedulerEnded
    \/ SchedulerQuery
    \/ SchedulerDrop
    \/ SchedulerSend
    \/ SchedulerWake
    \/ ControllerRequest
    \/ ControllerLock
    \/ ControllerSetComposition
    \/ PlayerStart
    \/ PlayerReceive
    \/ PlayerEndOfStream
    \/ PlayerDispatch
    \/ PlayerLock
    \/ PlayerNoteOn
    \/ PlayerReturn
    \/ WorkerLocks
    \/ WorkerNoteOffs
    \/ Tick

SpecControl == InitControl /\ [][NextControl]_vars

\* every thread is scheduled fairly and time passes; the controller is free
\* never to ask for the lock, but once it holds it it goes on
SpecControlFair ==
    /\ SpecControl
    /\ WF_vars(GuardedSchedulerThread)
    /\ WF_vars(ControllerLock \/ ControllerSetComposition)
    /\ WF_vars(PlayerSteps)
    /\ WF_vars(WorkerLocks \/ WorkerNoteOffs)
    /\ WF_vars(Tick)

\* ------------------------------------------------ cfg/mod.rs: compose
InnerPrimitives ==
    {Note(<<4, 3>>, 1), Note(<<4, 7>>, 2), Rest(1), ChangeInstrument("Piano")}

InnerStrings == SeqsUpTo(InnerPrimitives, MaxInnerLen)

Prefixes ==
    {<<>>, <<Note(<<4, 3>>, 1)>>, <<Rest(1)>>, <<ChangeInstrument("Piano")>>,
     <<ChangeVolume(80)>>, <<NT>>}

Suffixes == {<<>>, <<Note(<<4, 5>>, 1)>>}

Compound ==
    {Split(b) : b \in SeqsUpTo(InnerStrings, MaxBranches)}
        \cup {Repeat(n, c) : n \in 1..MaxRepeat, c \in InnerStrings}

SimplePrimitives ==
    {Note(<<4, 3>>, 1), Note(<<4, 7>>, 2), Rest(1), ChangeInstrument("Piano"),
     ChangeVolume(80), NT}

SimpleStrings == SeqsUpTo(SimplePrimitives, MaxSimpleLen)

MusicStrings ==
    SimpleStrings
        \cup {p \o s : p \in Prefixes, s \in Suffixes}
        \cup {p \o <<m>> \o s : p \in Prefixes, m \in Compound, s \in Suffixes}

InitCompose ==
    /\ scheduler = NewScheduler(Measures(1), FALSE, Measures(1))
    /\ sounds = <<>>
    /\ current_track_pos = -1
    /\ call_status = "none"
    /\ SimIdle
    /\ RunIdle
    /\ music_string \in MusicStrings
    /\ composed = NoOutcome
    /\ ScanIdle
    /\ PlayIdle

Compose ==
    /\ composed.status = "none"
    /\ composed' = compose(music_string, Common)
    /\ UNCHANGED <<schedVars, simVars, runVars, music_string, scanVars, playVars>>

NextCompose == Compose

SpecCompose == InitCompose /\ [][NextCompose]_vars

\* ------------------------------------------------ cfg/scan.rs: scan
RECURSIVE Join(_, _)
Join(pieces, sep) ==
    IF pieces = <<>> THEN <<>>
    ELSE IF Len(pieces) = 1 THEN pieces[1]
    ELSE pieces[1] \o sep \o Join(Tail(pieces), sep)

SplitText(branches) == <<"{">> \o Join(branches, <<"|">>) \o <<"}">>

TransformText(transform, content) ==
    <<"[">> \o transform \o <<"]", "[">> \o content \o <<"]">>

NonEmptySeqsUpTo(S, n) == UNION {[1..k -> S] : k \in 1..n}

LeafTexts == {<<>>, <<":", "4", "c">>, <<"A">>}

InnerTexts ==
    {SplitText(b) : b \in NonEmptySeqsUpTo(LeafTexts, MaxParts)}
        \cup {TransformText(<<"x", "2">>, c) : c \in LeafTexts}

BranchTexts == LeafTexts \cup InnerTexts

OuterTexts ==
    {SplitText(<<a>>) : a \in BranchTexts}
        \cup {SplitText(<<a, b>>) : a \in BranchTexts, b \in BranchTexts}
        \cup {TransformText(<<"x", "2">>, c) : c \in BranchTexts}

\* well-nested texts of one primitive, one or two levels deep
NestedTexts == InnerTexts \cup OuterTexts

TailTexts == {<<>>, <<" ", "B">>}

NoteTexts == {<<":", "4", "c">>, <<":", "c", "#">>, <<":", "_">>}

WellFormedDurationTexts == {<<>>, <<"<", "2", ">">>, <<"<", "1", "/", "2", ">">>}

MalformedDurationTexts ==
    {<<"<", "x", ">">>, <<"<", "1", "/", ">">>, <<"<", ">">>, <<"<", "/", "2", ">">>, <<"<", "1", "/", "x", ">">>}

MetaTexts ==
    {<<":", ":", "i", "=", "p", "i", "a", "n", "o">>, <<":", ":", "i", "=", "S", "i", "n", "e">>, <<":", ":", "i", "=", "k", "a", "z", "o", "o">>, <<":", ":", "v", "=", "8", "0">>}

SymbolTexts ==
    {n \o d : n \in NoteTexts, d \in WellFormedDurationTexts \cup MalformedDurationTexts}
        \cup MetaTexts

ExampleTexts ==
    {<<"{", " ", "{", "A", "|", "B", "}", " ", "|", " ", "C", " ", "}">>,
     <<"{", "A", " ", "|", " ", "[", "x", "3", "]", "[", "B", "]", "}">>,
     <<"[", "x", "3", "]", "[", "n", "o", "n", "t", "(", " ", "n", "o", "n", "t", "2", "]">>,
     <<"A", " ", "(">>,
     <<"{", ":", ":", "i", "=", "k", "a", "z", "o", "o", "|", "A", "}">>,
     <<"[", "x", "2", "]", "[", ":", "4", "c", "<", "x", ">", "]">>}

MusicTexts ==
    {n \o t : n \in NestedTexts \cup SymbolTexts, t \in TailTexts} \cup ExampleTexts

LineTexts ==
    {<<>>, <<"/", "/", " ", "c">>, <<"s", "t", "a", "r", "t", " ", "S">>, <<" ", "s", "t", "a", "r", "t", " ", "S", " ">>, <<"s", "t", "a", "r", "t", " ", "S", " ", "j", "u", "n", "k">>,
     <<"s", "t", "a", "r", "t">>, <<"S", " ", "=", " ", ":", "4", "c", " ", "B">>, <<"B", " ", "=", " ", "(">>, <<"B", " ", ":", "4", "c">>}

GrammarTexts == {Join(ls, <<"\n">>) : ls \in SeqsUpTo(LineTexts, MaxLines)}

\* texts for NoteScanner: an optional octave digit, a letter, an optional
\* accidental and what follows the note, each with the value it denotes
OctaveChoices == {<<<<>>, 4>>, <<<<"0">>, 0>>, <<<<"4">>, 4>>, <<<<"9">>, 9>>}

LetterChoices ==
    {<<"a", 0>>, <<"b", 2>>, <<"c", 3>>, <<"d", 5>>, <<"e", 7>>, <<"f", 8>>, <<"g", 10>>,
     <<"A", 0>>, <<"B", 2>>, <<"C", 3>>, <<"D", 5>>, <<"E", 7>>, <<"F", 8>>, <<"G", 10>>}

AccidentalChoices == {<<<<>>, 0>>, <<<<"#">>, 1>>, <<<<"b">>, -1>>}

NoteTailTexts == {<<>>, <<"<", "2", ">">>, <<" ", "B">>}

PitchTexts ==
    {o[1] \o <<l[1]>> \o a[1] \o t :
        o \in OctaveChoices, l \in LetterChoices, a \in AccidentalChoices, t \in NoteTailTexts}
        \cup {<<"_">> \o t : t \in NoteTailTexts}
        \cup {o[1] \o <<"h">> \o t : o \in OctaveChoices, t \in NoteTailTexts}
        \cup {o[1] : o \in OctaveChoices}

\* texts for MusicTransformScanner: a number text with the value it denotes
UnsignedChoices == {<<<<"0">>, 0>>, <<<<"2">>, 2>>, <<<<"3">>, 3>>, <<<<"1", "2">>, 12>>}

SignedChoices == UnsignedChoices \cup {<<<<"-", "2">>, -2>>, <<<<"+", "3">>, 3>>}

NumeratorChoices == {<<<<"2">>, 2>>, <<<<"3">>, 3>>, <<<<"-", "2">>, -2>>}

DenominatorChoices == {<<<<"2">>, 2>>, <<<<"3">>, 3>>, <<<<"-", "3">>, -3>>}

\* a transform with its number left out
MissingNumberTexts ==
    {<<"x">>, <<"T">>, <<"T", "-">>, <<">", ">">>, <<">", ">", "/", "2">>}
        \cup {<<">", ">">> \o n[1] \o <<"/">> : n \in NumeratorChoices}

ZeroDenominatorTexts == {<<">", ">">> \o n[1] \o <<"/", "0">> : n \in NumeratorChoices}

OtherLeadingTexts == {<<>>, <<"y", "2">>, <<">", "2">>, <<"2">>, <<"t", "1">>, <<"X", "2">>}

TransformTexts ==
    {<<"x">> \o n[1] : n \in UnsignedChoices}
        \cup {<<"T">> \o n[1] : n \in SignedChoices}
        \cup {<<">", ">">> \o n[1] : n \in NumeratorChoices}
        \cup {<<">", ">">> \o n[1] \o <<"/">> \o d[1] : n \in NumeratorChoices, d \in DenominatorChoices}
        \cup MissingNumberTexts \cup ZeroDenominatorTexts \cup OtherLeadingTexts
        \cup {<<">", ">", "0">>, <<">", ">", "0", "/", "3">>, <<">", ">", "3", "/", "x">>, <<"x", "-", "2">>}

\* what may follow a meta control: a note with or without a space in front
MetaTailTexts == {<<":", "4", "c">>, <<" ", ":", "4", "c">>}

MetaSequenceTexts == {m \o t : m \in MetaTexts, t \in MetaTailTexts}

ScanInputs ==
    MusicTexts \cup GrammarTexts \cup PitchTexts \cup TransformTexts \cup MetaSequenceTexts

InitScan ==
    /\ scheduler = NewScheduler(Measures(1), FALSE, Measures(1))
    /\ sounds = <<>>
    /\ current_track_pos = -1
    /\ call_status = "none"
    /\ SimIdle
    /\ RunIdle
    /\ ComposeIdle
    /\ PlayIdle
    /\ scan_input \in ScanInputs
    /\ scan_entry = "none"
    /\ scanned = NoScan
    /\ consumed = NoScan

\* S.scan(input) and consume(S).scan(input) for the scanner S named entry
Scan(entry, result) ==
    /\ scan_entry = "none"
    /\ scan_entry' = entry
    /\ scanned' = result
    /\ consumed' = consume(result)
    /\ UNCHANGED <<schedVars, simVars, runVars, composeVars, scan_input, playVars>>

ScanMusicString == Scan("MusicString", MusicStringScanner(scan_input))

ScanMusicPrimitive == Scan("MusicPrimitive", MusicPrimitiveScanner(scan_input))

ScanGrammar == Scan("Grammar", GrammarScanner(scan_input))

ScanNote == Scan("Note", NoteScanner(scan_input))

ScanMusicTransform == Scan("MusicTransform", MusicTransformScanner(scan_input))

NextScan ==
    \/ ScanMusicString
    \/ ScanMusicPrimitive
    \/ ScanGrammar
    \/ ScanNote
    \/ ScanMusicTransform

SpecScan == InitScan /\ [][NextScan]_vars

\* ------------------------------------------------------------ properties
NonDecreasing(times) == \A i, j \in DOMAIN times : i < j => times[i] <= times[j]

Count(seq, x) == Cardinality({i \in DOMAIN seq : seq[i] = x})

Times(seq) == [i \in DOMAIN seq |-> seq[i].time]

Seconds(s, mt) == to_seconds(s.time_signature, s.bpm, mt)

TrackIndexes == DOMAIN scheduler.tracks

EventIndexes(k) == DOMAIN scheduler.tracks[k][1].events

EventAt(k, j) == scheduler.tracks[k][1].events[j]

SoundOf(k, j) == EventToSound(scheduler, scheduler.tracks[k][1], EventAt(k, j))

EventSlots == {<<k, j>> \in TrackIndexes \X (0..MaxEvents + 1) : j \in EventIndexes(k)}

\* end of the latest event of the composition, in beats (0 without events)
CompositionEnd ==
    LET ends == {EventAt(sl[1], sl[2]).start + EventAt(sl[1], sl[2]).duration : sl \in EventSlots}
    IN IF ends = {} THEN 0 ELSE CHOOSE m \in ends : \A e \in ends : e <= m

SimReturned == sim.i = SimCalls /\ sim.duration > 0 /\ call_status # "diverged"

SimLastElapsed == (SimCalls - 1) * sim.interval

\* the run of C1: not looped, spacing at most the lookahead, run past D + lookahead
CompleteRun ==
    /\ SimReturned
    /\ ~scheduler.looped
    /\ sim.interval <= Seconds(scheduler, scheduler.lookahead)
    /\ SimLastElapsed > Seconds(scheduler, CompositionEnd + scheduler.lookahead)

\* C1: a non-looped run from cursors zero with calls at 0, D, 2D, ... (D <= lookahead)
\* that goes past duration + lookahead returns every event of every track exactly
\* once, and the returned lists concatenated in call order are non-decreasing in time.
C1_EveryEventOnceInOrder ==
    CompleteRun =>
        /\ Len(emitted_sounds) = Cardinality(EventSlots)
        /\ \A sl \in EventSlots :
               Count(emitted_sounds, SoundOf(sl[1], sl[2]))
                   = Cardinality({s2 \in EventSlots : SoundOf(s2[1], s2[2]) = SoundOf(sl[1], sl[2])})
        /\ NonDecreasing(Times(emitted_sounds))

C1_Witness ==
    /\ CompleteRun
    /\ Len(scheduler.tracks) = 2
    /\ Len(emitted_sounds) >= 2
    /\ emitted_sounds[1].time < emitted_sounds[Len(emitted_sounds)].time
    /\ sim.interval < Seconds(scheduler, scheduler.lookahead)

\* C3: the list returned by one call is sorted by time ascending, whatever the
\* order in which the tracks store their events.
C3_ReturnedListSorted ==
    call_status = "returned" => NonDecreasing(Times(sounds))

C3_Witness ==
    /\ call_status = "returned"
    /\ \E k \in TrackIndexes :
           /\ Len(scheduler.tracks[k][1].events) = 2
           /\ EventAt(k, 1).start > EventAt(k, 2).start
           /\ Len(sounds) = 2
           /\ sounds[1] = SoundOf(k, 2)
           /\ sounds[2] = SoundOf(k, 1)

\* C4: with looped = true and loop_time > 0, every sound returned by a call at
\* elapsed time t has time >= t.
C4_LoopedSoundsNotInPast ==
    (call_status = "returned" /\ scheduler.looped /\ scheduler.loop_time > 0) =>
        \A i \in DOMAIN sounds : sounds[i].time >= current_track_pos

\* a returned sound that the projection moved into a later loop iteration
C4_Witness ==
    /\ call_status = "returned"
    /\ scheduler.looped
    /\ scheduler.loop_time > 0
    /\ \E i \in DOMAIN sounds, sl \in EventSlots :
           /\ sounds[i].pitch = EventAt(sl[1], sl[2]).pitch
           /\ Seconds(scheduler, EventAt(sl[1], sl[2]).start) < current_track_pos
           /\ sounds[i].time >= current_track_pos
           /\ sounds[i].time = Seconds(scheduler, EventAt(sl[1], sl[2]).start)
                                 + 2 * Seconds(scheduler, scheduler.loop_time)

\* C6: ended() is true exactly when every track that has events has its cursor
\* past start + duration of its last event; tracks without events never matter.
C6_EndedIffCursorsPastLastEnd ==
    ended(scheduler) <=>
        \A k \in TrackIndexes :
            LET events == scheduler.tracks[k][1].events
                cursor == scheduler.tracks[k][2]
            IN events # <<>> =>
                   cursor > events[Len(events)].start + events[Len(events)].duration

C6_Witness ==
    /\ call_status = "returned"
    /\ ended(scheduler)
    /\ Len(scheduler.tracks) = 2
    /\ scheduler.tracks[1][1].events # <<>>
    /\ scheduler.tracks[2][1].events = <<>>

\* C2: over a whole session of run, the start times of the sounds sent on the
\* channel are non-decreasing, across tick boundaries as well as within a tick,
\* in non-looped and in looped mode.
C2_SentStartsNonDecreasing ==
    \A i, j \in DOMAIN sent : i < j => sent[i].sound.start <= sent[j].sound.start

HasEvent == \E k \in TrackIndexes : scheduler.tracks[k][1].events # <<>>

\* C5: a looped scheduler (loop_time > 0, at least one event) never ends, so the
\* scheduler thread of run never leaves its loop on its own.
C5_LoopedNeverEnds ==
    (scheduler.looped /\ scheduler.loop_time > 0 /\ HasEvent) =>
        (~ended(scheduler) /\ pc # "exited")

\* the scenario of C7: a one-measure composition looped over one measure with a
\* quarter-measure lookahead, queried just after the first loop has ended
C7_Scenario ==
    /\ call_status = "returned"
    /\ scheduler.looped
    /\ scheduler.loop_time = Measures(1)
    /\ 4 * scheduler.lookahead = Measures(1)
    /\ CompositionEnd = Measures(1)
    /\ \E sl \in EventSlots : EventAt(sl[1], sl[2]).start = Zero
    /\ current_track_pos = Seconds(scheduler, scheduler.loop_time) + 1

\* C7: in that scenario the call returns the loop's first event (musical start 0)
\* with time approximately loop_time_s, not 0.
C7_FirstEventAtLoopTime ==
    C7_Scenario =>
        \E i \in DOMAIN sounds, sl \in EventSlots :
            /\ EventAt(sl[1], sl[2]).start = Zero
            /\ sounds[i].pitch = EventAt(sl[1], sl[2]).pitch
            /\ sounds[i].time >= Seconds(scheduler, scheduler.loop_time) - 1
            /\ sounds[i].time <= Seconds(scheduler, scheduler.loop_time) + 1

\* C8: a configuration with looped = true and loop_time <= 0 is rejected at
\* construction, so get_next_events_and_update never runs on it.
C8_InvalidLoopNeverRuns ==
    current_track_pos >= 0 => ~(scheduler.looped /\ scheduler.loop_time <= 0)

\* total duration of a music string of simple symbols: its notes and rests
RECURSIVE TotalDuration(_)
TotalDuration(ms) ==
    IF ms = <<>> THEN 0 ELSE Head(ms).duration + TotalDuration(Tail(ms))

SplitsOf(ms) == {k \in DOMAIN ms : ms[k].type = "Split"}

EqualBranches(mp) ==
    \A a, b \in DOMAIN mp.parts : TotalDuration(mp.parts[a]) = TotalDuration(mp.parts[b])

\* C9: composing a Split succeeds iff all its branches have equal total duration;
\* otherwise compose returns the error value NonUniformSplit and no Composition.
C9_SplitUniformOrError ==
    composed.status # "none" =>
        \A k \in SplitsOf(music_string) :
            /\ EqualBranches(music_string[k]) => composed.status = "ok"
            /\ ~EqualBranches(music_string[k]) => composed.status = "NonUniformSplit"

\* C10: in every Composition returned by compose, each track's events are in
\* non-decreasing order of start.
C10_TrackEventsSorted ==
    composed.status = "ok" =>
        \A k \in DOMAIN composed.tracks :
            NonDecreasing([i \in DOMAIN composed.tracks[k].events |->
                              composed.tracks[k].events[i].start])

\* every event of the returned Composition, with the instrument of its track
ComposedEvents ==
    UNION {{[instrument |-> composed.tracks[k].instrument,
             event |-> composed.tracks[k].events[i]] :
                i \in DOMAIN composed.tracks[k].events} : k \in DOMAIN composed.tracks}

Before(ms, j) == SubSeq(ms, 1, j - 1)

NotesOf(ms) == {j \in DOMAIN ms : ms[j].type = "Note"}

\* the cursor in front of music_string[k], by the notes and rests before it
CursorAt(k) == TotalDuration(Before(music_string, k))

HasEventAt(pitch, start) ==
    \E ce \in ComposedEvents : ce.event.pitch = pitch /\ ce.event.start = start

\* C11: composing a Split at cursor c whose branches all have total duration d
\* gives every branch event the start c + (its start inside the branch) and
\* advances the cursor by exactly d: what follows the split starts at c + d.
C11_SplitAdvancesByBranchDuration ==
    composed.status = "ok" =>
        \A k \in SplitsOf(music_string) :
            (music_string[k].parts # <<>> /\ EqualBranches(music_string[k])) =>
                LET c == CursorAt(k)
                    d == TotalDuration(music_string[k].parts[1])
                IN /\ \A b \in DOMAIN music_string[k].parts :
                        \A j \in NotesOf(music_string[k].parts[b]) :
                            HasEventAt(music_string[k].parts[b][j].pitch,
                                       c + TotalDuration(Before(music_string[k].parts[b], j)))
                   /\ \A j \in NotesOf(music_string) :
                        j > k => HasEventAt(music_string[j].pitch,
                                            c + d + TotalDuration(SubSeq(music_string, k + 1, j - 1)))

RepeatsOf(ms) == {k \in DOMAIN ms : ms[k].type = "Repeat"}

\* number of events in the returned Composition
RECURSIVE EventCount(_)
EventCount(tracks) ==
    IF tracks = <<>> THEN 0 ELSE Len(Head(tracks).events) + EventCount(Tail(tracks))

\* the latest beat any checked music string reaches
MaxBeat == 1 + 2 * MaxRepeat * MaxInnerLen + 1

\* C12: composing Repeat n of content c emits exactly n copies of every event of
\* c, copy i shifted by i * duration(c), and contributes n * duration(c) to the
\* enclosing cursor, duration(c) being the notes and rests of c.
C12_RepeatCopiesAndDuration ==
    composed.status = "ok" =>
        \A k \in RepeatsOf(music_string) :
            LET n == music_string[k].num
                content == music_string[k].parts[1]
                d == TotalDuration(content)
            IN /\ EventCount(composed.tracks) =
                      Cardinality(NotesOf(music_string)) + n * Cardinality(NotesOf(content))
               /\ \E base \in 0..MaxBeat :
                      \A i \in 0..(n - 1) : \A j \in NotesOf(content) :
                          HasEventAt(content[j].pitch,
                                     base + i * d + TotalDuration(Before(content, j)))
               /\ \A j \in NotesOf(music_string) :
                      j > k => HasEventAt(music_string[j].pitch,
                                          CursorAt(k) + n * d
                                              + TotalDuration(SubSeq(music_string, k + 1, j - 1)))

IsSimple(ms) == \A k \in DOMAIN ms : ms[k].type \notin {"Split", "Repeat"}

LastOf(S) == CHOOSE m \in S : \A x \in S : x <= m

\* the instrument and the volume in force in front of ms[j]
InstrumentAt(ms, j) ==
    LET ks == {k \in 1..(j - 1) : ms[k].type = "ChangeInstrument"}
    IN IF ks = {} THEN "SineWave" ELSE ms[LastOf(ks)].instrument

VolumeAt(ms, j) ==
    LET ks == {k \in 1..(j - 1) : ms[k].type = "ChangeVolume"}
    IN IF ks = {} THEN 50 ELSE ms[LastOf(ks)].volume

\* the events the notes of ms from index j on put on the track of `instrument`
RECURSIVE ExpectedEvents(_, _, _)
ExpectedEvents(ms, j, instrument) ==
    IF j > Len(ms) THEN <<>>
    ELSE (IF ms[j].type = "Note" /\ InstrumentAt(ms, j) = instrument
          THEN <<Event(TotalDuration(Before(ms, j)), ms[j].duration,
                       VolumeAt(ms, j), ms[j].pitch)>>
          ELSE <<>>) \o ExpectedEvents(ms, j + 1, instrument)

EventsOn(instrument) ==
    LET ks == TrackOf(composed.tracks, instrument)
    IN IF ks = {} THEN <<>> ELSE composed.tracks[CHOOSE k \in ks : TRUE].events

\* C13: composing a sequence of simple symbols emits, for each Note, exactly one
\* event: start the sum of the durations of the notes and rests before it, its own
\* duration, the volume and the instrument in force there (initially 50 and
\* SineWave); rests, meta controls and non-terminals emit nothing, and meta
\* controls and non-terminals do not move the cursor.
C13_SimpleSymbolsEvents ==
    (composed.status # "none" /\ IsSimple(music_string)) =>
        /\ composed.status = "ok"
        /\ \A k \in DOMAIN Instruments :
            /\ Cardinality(TrackOf(composed.tracks, Instruments[k])) <= 1
            /\ EventsOn(Instruments[k]) = ExpectedEvents(music_string, 1, Instruments[k])

C13_Witness ==
    /\ composed.status = "ok"
    /\ IsSimple(music_string)
    /\ \E i, j, k \in DOMAIN music_string :
        /\ i < j /\ j < k
        /\ music_string[i].type = "ChangeVolume"
        /\ music_string[j].type = "Note"
        /\ music_string[k].type = "Note"
    /\ Len(EventsOn("SineWave")) = 2
    /\ EventsOn("SineWave")[2].start = 1
    /\ EventsOn("SineWave")[2].volume = 80

CompoundsOf(ms) == SplitsOf(ms) \cup RepeatsOf(ms)

HasEventWith(pitch, volume, instrument) ==
    \E ce \in ComposedEvents :
        /\ ce.event.pitch = pitch
        /\ ce.event.volume = volume
        /\ ce.instrument = instrument

HeadTexts(texts) ==
    {n \in texts : \E t \in TailTexts : scan_input = n \o t}

\* the number of `|` of s outside every nested {...}
RECURSIVE TopLevelPipes(_, _)
TopLevelPipes(s, depth) ==
    IF s = <<>> THEN 0
    ELSE IF Head(s) = "{" THEN TopLevelPipes(Tail(s), depth + 1)
    ELSE IF Head(s) = "}" THEN TopLevelPipes(Tail(s), depth - 1)
    ELSE (IF Head(s) = "|" /\ depth = 0 THEN 1 ELSE 0) + TopLevelPipes(Tail(s), depth)

\* the text between the `{` that opens n and the `}` that ends it
InnerRegion(n) == SubSeq(n, 2, Len(n) - 1)

NestedSplitExample == <<"{", " ", "{", "A", "|", "B", "}", " ", "|", " ", "C", " ", "}">>

IsSplitOf(primitives, count) ==
    /\ Len(primitives) = 1
    /\ primitives[1].type = "Split"
    /\ Len(primitives[1].branches) = count

\* C15: in a `{ ... }` primitive only the `|` at nesting depth zero of the inner
\* region separate branches; `{ {A|B} | C }` parses to a Split of two branches
\* whose first branch contains a Split of two branches.
C15_TopLevelPipesSeparate ==
    scan_entry = "MusicPrimitive" =>
        /\ \A n \in HeadTexts(NestedTexts) :
            Head(n) = "{" =>
                /\ scanned.status = "ok"
                /\ IsSplitOf(<<scanned.value>>, TopLevelPipes(InnerRegion(n), 0) + 1)
        /\ scan_input = NestedSplitExample =>
            /\ scanned.status = "ok"
            /\ IsSplitOf(<<scanned.value>>, 2)
            /\ IsSplitOf(scanned.value.branches[1], 2)

Brackets(s) == SelectSeq(s, LAMBDA c : c \in {"{", "}", "[", "]", "|"})

\* the brackets and pipes a parsed value stands for
RECURSIVE SkeletonOfString(_)
RECURSIVE SkeletonOf(_)
SkeletonOf(primitive) ==
    IF primitive.type = "Split"
    THEN SplitText([b \in DOMAIN primitive.branches |->
                       SkeletonOfString(primitive.branches[b])])
    ELSE IF primitive.type = "Transform"
    THEN TransformText(<<>>, SkeletonOfString(primitive.content))
    ELSE <<>>

SkeletonOfString(primitives) ==
    IF primitives = <<>> THEN <<>>
    ELSE SkeletonOf(Head(primitives)) \o SkeletonOfString(Tail(primitives))

MixedTexts == {n \in NestedTexts : "{" \in RangeOf(n) /\ "[" \in RangeOf(n)}

\* C16: for every well-nested input that mixes {} and [] the parser pairs each
\* opening bracket with the closer that balances it and nests the inner
\* primitive inside the outer one: the parse succeeds with that structure and
\* returns the text after the matched closer as remaining input.
C16_MixedBracketsNest ==
    scan_entry = "MusicPrimitive" =>
        \A n \in MixedTexts : \A t \in TailTexts :
            scan_input = n \o t =>
                /\ scanned.status = "ok"
                /\ scanned.rest = t
                /\ SkeletonOf(scanned.value) = Brackets(n)

\* C17: consume(S) succeeds exactly when S succeeds and leaves no remaining
\* input; when S succeeds with remaining input consume(S) returns an error, so
\* from_str rejects every string with unparsed residue.
C17_ConsumeRequiresEmptyRest ==
    scan_entry # "none" =>
        /\ consumed.status = "ok" <=> (scanned.status = "ok" /\ scanned.rest = <<>>)
        /\ (scanned.status = "ok" /\ scanned.rest # <<>>) => consumed.status = "err"
        /\ consumed.status = "ok" => consumed.value = scanned.value
        /\ scan_entry = "MusicString" =>
            /\ consumed = from_str(scan_input)
            /\ scanned.status = "ok" /\ scanned.rest # <<>> =>
                from_str(scan_input).status = "err"

C17_Witness ==
    /\ scan_entry = "MusicPrimitive"
    /\ scanned.status = "ok"
    /\ scanned.rest # <<>>
    /\ consumed.status = "err"

\* C18: a malformed duration (the text between `<` and `>` is neither an
\* unsigned integer nor uint/uint) makes the parse fail with a parse error; it
\* is never replaced by a default or zero duration.
C18_MalformedDurationRejected ==
    scan_entry = "MusicString" =>
        \A n \in NoteTexts, d \in MalformedDurationTexts, t \in TailTexts :
            scan_input = n \o d \o t => consumed.status = "err"

Contains(s, sub) ==
    \E i \in 0..(Len(s) - Len(sub)) : SubSeq(s, i + 1, i + Len(sub)) = sub

UnknownInstrumentText == <<":", ":", "i", "=", "k", "a", "z", "o", "o">>

\* C19: an instrument name after `::i=` that is not in the known table makes the
\* parse return a parse error value to the caller (the program is not aborted),
\* and that first error aborts the whole parse.
C19_UnknownInstrumentIsError ==
    (scan_entry \in {"MusicString", "MusicPrimitive"}
        /\ Contains(scan_input, UnknownInstrumentText)) =>
            scanned.status = "err"

\* a line that is exactly `start <NonTerminal>`
IsStartLine(line) ==
    /\ starts_with(line, StartPrefix)
    /\ Len(line) > Len(StartPrefix)
    /\ \A i \in (Len(StartPrefix) + 1)..Len(line) : is_nt_char(line[i])

\* the lines of the text that are neither blank nor comments, trimmed
KeptLines(text) ==
    LET all == split(text, "\n")
    IN SelectSeq([i \in DOMAIN all |-> trim(all[i])],
                 LAMBDA line : line # <<>> /\ ~starts_with(line, CommentPrefix))

\* C20: GrammarScanner drops blank lines and `//` lines, requires the first
\* remaining line to be `start <NonTerminal>` and rejects every text without
\* such a start line with an error; each further line is parsed as one
\* production and an error in any production fails the whole grammar parse.
C20_GrammarStartAndProductions ==
    scan_entry = "Grammar" =>
        LET kept == KeptLines(scan_input)
        IN /\ scanned = GrammarScanner(Join(kept, <<"\n">>))
           /\ scanned.status = "ok" => (kept # <<>> /\ IsStartLine(kept[1]))
           /\ (kept = <<>> \/ ~IsStartLine(kept[1])) => scanned.status = "err"
           /\ scanned.status = "ok" =>
                /\ Len(scanned.value.productions) = Len(kept) - 1
                /\ \A k \in 2..Len(kept) : ProductionScanner(kept[k]).status = "ok"
           /\ (\E k \in 2..Len(kept) : ProductionScanner(kept[k]).status # "ok") =>
                scanned.status # "ok"

\* C21: NoteScanner maps `_` to Rest and otherwise an optional octave digit
\* (default 4), a letter a..g in either case (a:0 b:2 c:3 d:5 e:7 f:8 g:10) and
\* an optional `#` (+1) or `b` (-1 modulo 12) to a Pitch; every semitone it
\* returns is in 0..11 and the remaining input starts right after the note.
C21_NoteScannerPitch ==
    scan_entry = "Note" =>
        /\ \A t \in NoteTailTexts :
              scan_input = <<"_">> \o t => scanned = Ok([type |-> "Rest", pitch |-> <<0, 0>>], t)
        /\ \A o \in OctaveChoices, l \in LetterChoices, a \in AccidentalChoices, t \in NoteTailTexts :
              scan_input = o[1] \o <<l[1]>> \o a[1] \o t =>
                  scanned = Ok([type |-> "Note", pitch |-> <<o[2], (l[2] + a[2]) % 12>>], t)
        /\ (scanned.status = "ok" /\ scanned.value.type = "Note") =>
              scanned.value.pitch[2] \in 0..11

C21_Witness ==
    /\ scan_entry = "Note"
    /\ scan_input = <<"9", "a", "b", "<", "2", ">">>
    /\ scanned.status = "ok"
    /\ scanned.value.pitch = <<9, 11>>
    /\ scanned.rest = <<"<", "2", ">">>

\* the scan returned the transform of the given type and count
ScannedTransform(type, num) ==
    /\ scanned.status = "ok"
    /\ scanned.value.type = type
    /\ scanned.value.num = num

\* the scan returned a Compression whose factor is the reciprocal of n/d
ScannedCompression(n, d) ==
    /\ scanned.status = "ok"
    /\ scanned.value.type = "Compression"
    /\ scanned.value.factor[2] # 0
    /\ scanned.value.factor[1] * n = scanned.value.factor[2] * d

\* C22: MusicTransformScanner maps `x<uint>` to Repeat{n}, `T<int>` (sign
\* allowed) to Transpose{semitones} and `>><frac>` to the Compression whose
\* factor is the reciprocal of frac, frac being `n` or `n/d`; a zero
\* denominator, a missing number or any other leading character yields a
\* parse error.
C22_TransformScannerMapping ==
    scan_entry = "MusicTransform" =>
        /\ \A n \in UnsignedChoices :
              scan_input = <<"x">> \o n[1] => ScannedTransform("Repeat", n[2])
        /\ \A n \in SignedChoices :
              scan_input = <<"T">> \o n[1] => ScannedTransform("Transpose", n[2])
        /\ \A n \in NumeratorChoices :
              scan_input = <<">", ">">> \o n[1] => ScannedCompression(n[2], 1)
        /\ \A n \in NumeratorChoices, d \in DenominatorChoices :
              scan_input = <<">", ">">> \o n[1] \o <<"/">> \o d[1] => ScannedCompression(n[2], d[2])
        /\ scan_input \in ZeroDenominatorTexts => scanned.status = "err"
        /\ scan_input \in MissingNumberTexts => scanned.status = "err"
        /\ scan_input \in OtherLeadingTexts => scanned.status = "err"

\* C23: every MusicTransform the parser returns is within the data model's
\* ranges (Repeat n >= 1, Compression factor > 0), and for every text the
\* parser returns a result or an error value.
C23_TransformsWithinRanges ==
    scan_entry = "MusicTransform" =>
        /\ scanned.status \in {"ok", "err"}
        /\ (scanned.status = "ok" /\ scanned.value.type = "Repeat") => scanned.value.num >= 1
        /\ (scanned.status = "ok" /\ scanned.value.type = "Compression") =>
              scanned.value.factor[1] * scanned.value.factor[2] > 0

\* the sounds of a sequence of [sound, at] records
SoundsOf(log) == [i \in DOMAIN log |-> log[i].sound]

\* the player is between receiving a sound and calling play for it
Pending == player.pc \in {"sleep", "play"}

\* C24: every sound received from the channel is dispatched (play is called)
\* no earlier than T0 + start_s, T0 being the session start the player
\* recorded; the sounds are dispatched in exactly the order received, a sound
\* that is already late is dispatched immediately and no received sound is
\* skipped.
C24_DispatchAtDeadlineInOrder ==
    player.pc # "idle" =>
        /\ SoundsOf(player.received) \o channel.queue = SoundsOf(sent)
        /\ Len(player.dispatched) = Len(player.received) - (IF Pending THEN 1 ELSE 0)
        /\ \A i \in DOMAIN player.dispatched :
              /\ player.dispatched[i].sound = player.received[i].sound
              /\ player.dispatched[i].at >= player.start_time + player.dispatched[i].sound.start
              /\ player.dispatched[i].at >= player.received[i].at
              /\ player.received[i].at >= player.start_time + player.dispatched[i].sound.start =>
                    player.dispatched[i].at = player.received[i].at
        /\ \A i, j \in DOMAIN player.dispatched :
              i < j => player.dispatched[i].at <= player.dispatched[j].at

\* a first sound dispatched after a sleep and a second, late one dispatched
\* at once
C24_Witness ==
    /\ Len(player.dispatched) = 2
    /\ player.received[1].at < player.start_time + player.received[1].sound.start
    /\ player.dispatched[1].at >= player.start_time + player.received[1].sound.start
    /\ player.received[2].at > player.start_time + player.received[2].sound.start
    /\ player.dispatched[2].at = player.received[2].at

\* run_midi returns: the scope has joined the scheduler thread and
\* play_from_ordered_channel has returned
SessionReturned == pc = "exited" /\ player.pc = "returned"

\* the receive loop ended only after every sound sent was dispatched
DrainedBeforeEnd ==
    player.pc \in {"tail", "returned"} => SoundsOf(player.dispatched) = SoundsOf(sent)

\* the player returned no earlier than the end of every sound it dispatched
ReturnedAfterTails ==
    player.pc = "returned" =>
        \A i \in DOMAIN player.dispatched :
            player.returned_at >= player.dispatched[i].at + player.dispatched[i].sound.duration

\* C25: for a non-looped scheduler with a finite composition, under fair
\* scheduling of the threads, the session eventually returns: the scheduler
\* thread sees ended(), exits and drops the sender, the player's receive loop
\* ends after every sound sent has been dispatched, the player returns once
\* the longest tail has finished, and no send on the channel ever fails.
C25_SessionEventuallyReturns ==
    /\ <>(pc = "exited" /\ ~channel.sender)
    /\ <>SessionReturned
    /\ []DrainedBeforeEnd
    /\ []ReturnedAfterTails
    /\ [](pc # "panicked")

\* the wire entries of the given kind that belong to sound number s
WireOf(kind, s) ==
    {i \in DOMAIN midi.wire : midi.wire[i].message.kind = kind /\ midi.wire[i].sound = s}

\* round(v / 100 * 127), halves rounded up
RoundedVelocity(v) == (2 * v * 127 + 100) \div 200

\* C26: a sound whose instrument has no (port, channel) mapping does not abort
\* the MIDI player: the player reports an error for it and plays the
\* following sounds of the stream.
C26_UnmappedInstrumentSkipped ==
    player.pc # "idle" =>
        /\ player.pc # "panicked"
        /\ player.pc \in {"tail", "returned"} =>
              \A s \in DOMAIN player.received :
                  player.received[s].sound.instrument \in DOMAIN midi.mapping =>
                      WireOf("NoteOn", s) # {}

\* C27: the velocity carried by the NoteOn of a sound with volume v in 0..100
\* is round(v / 100 * 127) and lies in 0..127 (0 for volume 0, 127 for volume
\* 100).
C27_VelocityRounded ==
    \A i \in DOMAIN midi.wire :
        midi.wire[i].message.kind = "NoteOn" =>
            /\ midi.wire[i].message.vel \in 0..127
            /\ midi.wire[i].message.vel =
                   RoundedVelocity(player.dispatched[midi.wire[i].sound].sound.volume)

\* the two entries are for the same port, channel and key
SameNote(a, b) ==
    /\ a.port = b.port
    /\ a.message.channel = b.message.channel
    /\ a.message.key = b.message.key

\* a thread waiting for the mutex of a free port can take it, whoever holds
\* the other ports
FreePortNeverWaits ==
    /\ (player.pc = "lock" /\ midi.holders[PortOf(player.event)] = {}) => ENABLED PlayerLock
    /\ \A k \in DOMAIN midi.workers :
          (/\ midi.workers[k].pc = "sleep"
           /\ now >= midi.workers[k].wake
           /\ midi.holders[midi.workers[k].port] = {}) => ENABLED WorkerLock(k)

\* what has been sent so far: at most one NoteOn (by the player, at dispatch)
\* and one NoteOff (by a worker, after the duration) per sound, and at most
\* one thread inside the mutex of a port
NoteOffDiscipline ==
    player.pc # "idle" =>
        /\ \A p \in DOMAIN midi.holders : Cardinality(midi.holders[p]) <= 1
        /\ FreePortNeverWaits
        /\ \A s \in DOMAIN player.dispatched :
              /\ Cardinality(WireOf("NoteOn", s)) <= 1
              /\ Cardinality(WireOf("NoteOff", s)) <= 1
              /\ \A i \in WireOf("NoteOn", s) :
                    /\ midi.wire[i].at = player.dispatched[s].at
                    /\ midi.wire[i].by = PlayerThread
              /\ \A j \in WireOf("NoteOff", s) : \E i \in WireOf("NoteOn", s) :
                    /\ i < j
                    /\ SameNote(midi.wire[i], midi.wire[j])
                    /\ midi.wire[j].by # PlayerThread
                    /\ midi.wire[j].at >= midi.wire[i].at + player.dispatched[s].sound.duration
        /\ \A k \in DOMAIN midi.workers :
              /\ WireOf("NoteOn", midi.workers[k].sound) # {}
              /\ midi.workers[k].pc = "done" <=> WireOf("NoteOff", midi.workers[k].sound) # {}
        /\ \A i \in DOMAIN midi.wire :
              midi.wire[i].message.kind = "NoteOn" =>
                  \E k \in DOMAIN midi.workers : midi.workers[k].sound = midi.wire[i].sound

StreamPositions == 1..2

\* C28: for every sound the MIDI player plays, NoteOn is sent at dispatch and
\* exactly one NoteOff for the same port, channel and key is sent later by a
\* worker, no earlier than duration_s after the NoteOn; sends on one port
\* never overlap (each is made holding the port's mutex) and a send on one
\* port never waits for a send on another port.
C28_NoteOffAfterDurationUnderMutex ==
    /\ []NoteOffDiscipline
    /\ \A s \in StreamPositions : (WireOf("NoteOn", s) # {}) ~> (WireOf("NoteOff", s) # {})

\* two sounds on the same port, each with its NoteOn and its NoteOff, the
\* second NoteOn sent while the first worker was due
C28_Witness ==
    /\ Len(midi.wire) = 4
    /\ \A i \in DOMAIN midi.wire : midi.wire[i].port = 0
    /\ \A s \in {1, 2} : Cardinality(WireOf("NoteOn", s)) = 1 /\ Cardinality(WireOf("NoteOff", s)) = 1
    /\ player.dispatched[2].sound.instrument = "Piano"
    /\ player.dispatched[2].at = 10

\* the run of C29: looped over exactly the composition's duration, lookahead
\* at most the loop, calls spaced at most the lookahead apart
LoopedRun ==
    /\ SimReturned
    /\ scheduler.looped
    /\ EventSlots # {}
    /\ scheduler.loop_time = CompositionEnd
    /\ scheduler.lookahead <= scheduler.loop_time
    /\ sim.interval <= Seconds(scheduler, scheduler.lookahead)

\* the sound of event j of track k in loop iteration n
Occurrence(k, j, n) ==
    [SoundOf(k, j) EXCEPT !.time = @ + n * Seconds(scheduler, scheduler.loop_time)]

\* the loop iterations a run of MaxElapsed can touch
Iterations == 0..MaxElapsed

\* C29: in a looped run (loop_time = the composition's duration, lookahead <=
\* loop_time, calls spaced at most lookahead apart) every event is returned
\* exactly once per loop iteration: the time start_s + k * loop_time_s occurs
\* exactly once among the returned sounds for every iteration k the run has
\* reached, and never twice.
C29_OncePerLoopIteration ==
    LoopedRun =>
        \A sl \in EventSlots : \A n \in Iterations :
            LET occurrence == Occurrence(sl[1], sl[2], n)
                copies == Cardinality({s2 \in EventSlots : SoundOf(s2[1], s2[2]) = SoundOf(sl[1], sl[2])})
            IN /\ Count(emitted_sounds, occurrence) <= copies
               /\ occurrence.time < SimLastElapsed => Count(emitted_sounds, occurrence) = copies

\* C30: every call get_next_events_and_update(t) terminates, for every t >= 0
\* and every value of the public fields looped, loop_time and lookahead: each
\* of its three while loops strictly progresses towards its exit condition.
C30_EveryCallTerminates ==
    current_track_pos >= 0 => call_status = "returned"

\* the sounds sent on the channel so far, in send order
SentSounds == [i \in DOMAIN sent |-> sent[i].sound]

\* every event of every track has been sent at least as often as it occurs
AllEventsSent ==
    \A sl \in EventSlots :
        Count(SentSounds, AtomicSoundFrom(SoundOf(sl[1], sl[2])))
            >= Cardinality({s2 \in EventSlots : SoundOf(s2[1], s2[2]) = SoundOf(sl[1], sl[2])})

\* C31: in non-looped mode, from set_composition on and with non-decreasing
\* elapsed times, whenever ended() is true every event of every track has been
\* returned by an earlier call: the scheduler thread of run never stops while
\* an event is still unsent.
C31_EndedOnlyAfterAllReturned ==
    (pc # "idle" /\ ~scheduler.looped) =>
        /\ ended(scheduler) => AllEventsSent
        /\ pc = "exited" => AllEventsSent

\* the scheduler thread holds the scheduler's mutex only inside its calls of
\* ended() and get_next_events_and_update
GuardOnlyAroundCalls ==
    control.holder = "scheduler" => pc \in {"locked", "called", "hung"}

SchedulerWaits == pc = "loop" /\ control.holder # "none"

ControllerWaits == control.pc = "lock" /\ control.holder # "none"

PlayerWaits == player.pc = "recv" /\ channel.queue = <<>> /\ channel.sender

\* a waiting thread waits for a thread that is itself not waiting
NoWaitCycle ==
    /\ SchedulerWaits => control.holder = "controller" /\ control.pc = "locked"
    /\ ControllerWaits => control.holder = "scheduler" /\ pc \in {"locked", "called", "hung"}
    /\ PlayerWaits => pc \in {"loop", "locked", "called", "send", "sleep", "hung"}
    /\ ~(SchedulerWaits /\ ControllerWaits)

\* C32: in run_midi the scheduler thread holds the scheduler mutex only while
\* it calls ended() and get_next_events_and_update and has released it before
\* it sends and before it sleeps; a controller that asks for the lock to call
\* set_composition always gets it, and the scheduler thread, the player
\* thread and the controller never wait on each other.
C32_ControllerGetsLockBetweenTicks ==
    /\ [](GuardOnlyAroundCalls /\ NoWaitCycle)
    /\ (control.pc = "lock") ~> (control.pc = "locked")

\* x brought into (0, loop_time] by whole loops when it lies above loop_time
LoopReduced(x, loop_time) ==
    IF x > loop_time /\ loop_time > 0 THEN ((x - 1) % loop_time) + 1 ELSE x

\* the window end of a call at elapsed time t: current + lookahead, reduced
\* by whole loops when looped
WindowEnd(s, t) ==
    LET m == (t * s.bpm) \div UnitsPerMinute
    IN IF s.looped
       THEN LoopReduced(LoopReduced(m, s.loop_time) + s.lookahead, s.loop_time)
       ELSE m + s.lookahead

CursorsAtWindowEnd ==
    call_status = "returned" =>
        \A k \in TrackIndexes :
            /\ scheduler.tracks[k][2] = WindowEnd(scheduler, current_track_pos)
            /\ scheduler.looped => scheduler.tracks[k][2] <= scheduler.loop_time

CursorsNeverDecrease ==
    (call_status' = "returned" /\ ~scheduler.looped
        /\ current_track_pos' >= current_track_pos
        /\ Len(scheduler'.tracks) = Len(scheduler.tracks)) =>
            \A k \in TrackIndexes : scheduler'.tracks[k][2] >= scheduler.tracks[k][2]

\* C33: after any call every track's cursor holds the same value, the
\* (loop-reduced) window end current + lookahead of that call; when looped
\* that value never exceeds loop_time, and in non-looped mode with
\* non-decreasing elapsed times it never decreases from one call to the next.
C33_CursorsAtWindowEnd ==
    /\ []CursorsAtWindowEnd
    /\ [][CursorsNeverDecrease]_vars

\* a looped call whose window end was reduced by two whole loops, two tracks
C33_Witness ==
    /\ call_status = "returned"
    /\ scheduler.looped
    /\ Len(scheduler.tracks) = 2
    /\ scheduler.loop_time > 0
    /\ (current_track_pos * scheduler.bpm) \div UnitsPerMinute + scheduler.lookahead
           > 2 * scheduler.loop_time
    /\ scheduler.tracks[1][2] = scheduler.loop_time

\* number of events of the returned Composition that start before beat c
RECURSIVE StartingBefore(_, _)
StartingBefore(tracks, c) ==
    IF tracks = <<>> THEN 0
    ELSE Cardinality({i \in DOMAIN Head(tracks).events : Head(tracks).events[i].start < c})
             + StartingBefore(Tail(tracks), c)

\* C35: every event emitted while composing a primitive that begins at cursor
\* c has start >= c: the events of a Repeat or a Split that follows earlier
\* notes or rests never start before the end of what precedes it, so the only
\* events that start before c are those of the notes in front of it.
C35_EventsNotBeforeCursor ==
    composed.status = "ok" =>
        \A k \in CompoundsOf(music_string) :
            StartingBefore(composed.tracks, CursorAt(k))
                <= Cardinality(NotesOf(Before(music_string, k)))

\* C36: after `::i=<name>` or `::v=<number>` the remaining input starts at the
\* first character that is not part of the name or number: the character that
\* ends the token is not discarded, so `::v=80:4c` parses as ChangeVolume(80)
\* followed by the note 4c, the same as `::v=80 :4c`.
C36_MetaTokenKeepsTerminator ==
    /\ scan_entry = "MusicPrimitive" =>
        \A m \in MetaTexts, t \in TailTexts \cup MetaTailTexts :
            (scan_input = m \o t /\ scanned.status # "panic") =>
                /\ scanned.status = "ok"
                /\ scanned.rest = t
    /\ scan_entry = "MusicString" =>
        \A m \in MetaTexts :
            (scan_input = m \o <<":", "4", "c">> /\ scanned.status # "panic") =>
                /\ scanned.status = "ok"
                /\ Len(scanned.value) = 2
                /\ scanned.value = MusicStringScanner(m \o <<" ", ":", "4", "c">>).value

\* a successful scan of s consumed at least one character and returns an end of s
Progress(s, r) ==
    r.status = "ok" =>
        /\ Len(r.rest) < Len(s)
        /\ r.rest = SubSeq(s, Len(s) - Len(r.rest) + 1, Len(s))

\* C37: MusicStringScanner terminates on every finite input: each successful
\* primitive scan, of the input, of what remains of it or of a bracketed
\* region nested in it (all of them substrings of the input), returns a
\* remaining input strictly shorter than what it was given, and a successful
\* MusicStringScanner returns an empty remaining input.
C37_ScanProgressAndEmptyRest ==
    scan_entry = "MusicString" =>
        /\ scanned.status # "none"
        /\ scanned.status = "ok" => scanned.rest = <<>>
        /\ \A i \in 1..(Len(scan_input) + 1) : \A j \in (i - 1)..Len(scan_input) :
               \A s \in {SubSeq(scan_input, i, j)} :
                   \A r \in {MusicPrimitiveScanner(s)} : Progress(s, r)

\* two primitives, the first a bracketed one with a nested scan
C37_Witness ==
    /\ scan_entry = "MusicString"
    /\ scanned.status = "ok"
    /\ Len(scanned.value) = 2
    /\ Head(scan_input) = "{"
    /\ scanned.value[1].type = "Split"

ConfigFields == {"bpm", "lookahead", "looped", "loop_time"}

\* a step in which get_next_events_and_update returned
CallFrame ==
    call_status' = "returned" =>
        /\ \A f \in ConfigFields \cup {"time_signature"} : scheduler'[f] = scheduler[f]
        /\ Len(scheduler'.tracks) = Len(scheduler.tracks)
        /\ \A k \in TrackIndexes : scheduler'.tracks[k][1] = scheduler.tracks[k][1]

\* a step of set_composition
SetCompositionFrame ==
    (call_status' = "none" /\ current_track_pos' = -1) =>
        /\ \A f \in ConfigFields : scheduler'[f] = scheduler[f]
        /\ \E composition \in Compositions :
               /\ scheduler'.time_signature = composition.time_signature
               /\ Len(scheduler'.tracks) = Len(composition.tracks)
               /\ \A k \in DOMAIN composition.tracks :
                      scheduler'.tracks[k] = <<composition.tracks[k], 0>>

\* C34: get_next_events_and_update changes only the tracks' cursors: bpm,
\* time_signature, lookahead, looped, loop_time and every track's event list,
\* instrument and identifier are unchanged by it; set_composition replaces the
\* tracks and time_signature and sets every cursor to zero while leaving bpm,
\* lookahead, looped and loop_time unchanged.
C34_FrameOfCallAndSetComposition ==
    [][CallFrame /\ SetCompositionFrame]_vars

\* a call that moved the cursor of a composition set with another time signature
C34_Witness ==
    /\ call_status = "returned"
    /\ scheduler.time_signature = Waltz
    /\ scheduler.lookahead > 0
    /\ scheduler.tracks[1][2] > 0
    /\ sounds # <<>>

====
